---- MODULE Spec2Model ----
(***************************************************************************)
(* Teachers GitLab (matfyz.gitlab): the retry engine, the canonicalization *)
(* resolver, the deadline commit resolver and the idempotent mutators of   *)
(* src/matfyz/gitlab/utils.py, with the batch commands of                  *)
(* src/matfyz/gitlab/teachers_gitlab.py that drive them.                   *)
(*                                                                         *)
(* The module holds several specifications over one set of variables; each *)
(* specification drives one part of the program and leaves the variables   *)
(* of the other parts at their idle values:                                *)
(*   SpecRetry     one call through retry_on_exception                     *)
(*   SpecRetryFair the same, the call never left standing                  *)
(*   SpecDeadline  get_commit_before_deadline against a repository         *)
(*   SpecFork      calls of fork_project_idempotent against a server       *)
(*   SpecBatch     the fork / add-member / put-file commands, killed and   *)
(*                 run again                                               *)
(*   SpecGather    the deadline-commit / get-file / clone commands         *)
(*   SpecPut       calls of put_file on a network that can fail            *)
(*   SpecTwice     the put-file command run to its end more than once      *)
(*   SpecWait      wait_for_project_to_be_forked while the server fills    *)
(*                 the fork                                                *)
(*   SpecGen       a for loop over retries() with any arguments            *)
(*   SpecCanon     calls of get_canonical_project                          *)
(*   SpecRoster    the add-member / protect / unprotect commands over a    *)
(*                 roster, on a network that can fail                      *)
(*   SpecUnfork    calls of remove_fork_relationship                       *)
(***************************************************************************)
EXTENDS Integers, Sequences, FiniteSets, TLC

VARIABLES
    r_pc,        \* retry_on_exception.wrapper: "off", "for", "try", "done"
    r_gen,       \* the retries() generator the wrapper's for loop iterates
    r_last_ex,   \* wrapper's last_ex: <<>> (None) or <<exception>>
    r_calls,     \* outcome of every invocation of the wrapped func, in order
    r_slept,     \* r_slept[i]: seconds slept after invocation i
    r_outcome,   \* what the wrapper gave its caller: <<>> while running
    d_commits,   \* the repository's commits, oldest first (the server's store)
    d_tags,      \* the repository's tags, in the order project.tags.list() gives
    d_query,     \* arguments of the get_commit_before_deadline call: <<>> or <<q>>
    d_result,    \* what that call returned or raised: <<>> or <<result>>
    d_again,     \* what the same call, made once more, returned or raised
    s_projects,  \* the server's projects; the project's id is its position
    f_log,       \* the calls of fork_project_idempotent made so far
    b_cmd,       \* the batch command and its options
    b_start,     \* the server's projects when the command was first started
    b_kills,     \* where each earlier run of the command was killed
    b_pc,        \* the running command: roster entry and step within it
    b_to_project,\* action_fork's to_project, wait_for_project_to_be_forked's project
    b_err,       \* the exception that ended the run: <<>> or <<exception>>
    g_cmd,       \* the read-only batch command and its options
    g_roster,    \* the roster, in the order of the CSV rows
    g_commits,   \* g_commits[login]: the commits and tags of the student's project
    g_pc,        \* the running command: roster entry and step
    g_out,       \* what the command has produced or reported, row by row
    g_err,      \* the exception that ended the command: <<>> or <<exception>>
    g_commit,    \* clone's --commit: None, or Some(id) of the commit to reset to
    g_calls,     \* the calls to the GitLab API the command has made so far
    p_log,      \* the calls of put_file made so far
    t_cmd,       \* the put-file command and its options
    t_runs,     \* what each run of the command so far reported and sent, row by row
    w_args,      \* wait_for_project_to_be_forked's arguments: project_path and timeout
    w_pc,        \* its position: "enter", "for", "check", "done"
    w_gen,       \* the retries() generator its for loop iterates
    w_project,   \* its local `project`
    w_truth,     \* the server's empty flag of the fork when `project` was last assigned
    w_fetches,   \* the number of projects.get requests it has sent
    w_slept,     \* the seconds slept in the generator
    w_outcome,  \* what it gave its caller: <<>> while running
    q_args,      \* the arguments retries() was called with: n, interval, timeout
    q_pc,        \* the for loop over the generator: "made", "body", "yielded", "done"
    q_gen,       \* the generator's state, <<>> before its first resumption
    q_runs,      \* how many times the loop body, the guarded operation, has run
    q_outcome,  \* how the loop ended: <<>> while it runs
    c_log,       \* the calls of get_canonical_project made so far
    o_cmd,       \* the add-member, protect or unprotect command and its options
    o_roster,    \* the roster, in the order of the CSV rows
    o_branches,  \* o_branches[id]: the named branch of the project on the server
    o_pc,        \* the running command: roster entry and step
    o_seen,      \* processed_projects of as_existing_gitlab_projects
    o_log,       \* what each roster entry so far met and sent
    o_err,       \* the exception that ended the command: <<>> or <<exception>>
    u_log        \* the calls of remove_fork_relationship made so far

retryVars == <<r_pc, r_gen, r_last_ex, r_calls, r_slept, r_outcome>>
deadlineVars == <<d_commits, d_tags, d_query, d_result, d_again>>
serverVars == <<s_projects>>
forkVars == <<f_log>>
batchVars == <<b_cmd, b_start, b_kills, b_pc, b_to_project, b_err>>
gatherVars == <<g_cmd, g_roster, g_commits, g_pc, g_out, g_err, g_commit, g_calls>>
putVars == <<p_log>>
twiceVars == <<t_cmd, t_runs>>
waitVars == <<w_args, w_pc, w_gen, w_project, w_truth, w_fetches, w_slept, w_outcome>>
genVars == <<q_args, q_pc, q_gen, q_runs, q_outcome>>
canonVars == <<c_log>>
rosterVars == <<o_cmd, o_roster, o_branches, o_pc, o_seen, o_log, o_err>>
unforkVars == <<u_log>>
notRetry == <<deadlineVars, serverVars, forkVars, batchVars, gatherVars, putVars, twiceVars, waitVars, genVars, canonVars, rosterVars, unforkVars>>
notDeadline == <<retryVars, serverVars, forkVars, batchVars, gatherVars, putVars, twiceVars, waitVars, genVars, canonVars, rosterVars, unforkVars>>
notFork == <<retryVars, deadlineVars, batchVars, gatherVars, putVars, twiceVars, waitVars, genVars, canonVars, rosterVars, unforkVars>>
notBatch == <<retryVars, deadlineVars, forkVars, gatherVars, putVars, twiceVars, waitVars, genVars, canonVars, rosterVars, unforkVars>>
notGather == <<retryVars, deadlineVars, serverVars, forkVars, batchVars, putVars, twiceVars, waitVars, genVars, canonVars, rosterVars, unforkVars>>
notPut == <<retryVars, deadlineVars, forkVars, batchVars, gatherVars, twiceVars, waitVars, genVars, canonVars, rosterVars, unforkVars>>
notTwice == <<retryVars, deadlineVars, forkVars, batchVars, gatherVars, putVars, waitVars, genVars, canonVars, rosterVars, unforkVars>>
notWait == <<retryVars, deadlineVars, forkVars, batchVars, gatherVars, putVars, twiceVars, genVars, canonVars, rosterVars, unforkVars>>
notGen == <<retryVars, deadlineVars, serverVars, forkVars, batchVars, gatherVars, putVars, twiceVars, waitVars, canonVars, rosterVars, unforkVars>>
notCanon == <<retryVars, deadlineVars, forkVars, batchVars, gatherVars, putVars, twiceVars, waitVars, genVars, rosterVars, unforkVars>>
notRoster == <<retryVars, deadlineVars, forkVars, batchVars, gatherVars, putVars, twiceVars, waitVars, genVars, canonVars, unforkVars>>
notUnfork == <<retryVars, deadlineVars, forkVars, batchVars, gatherVars, putVars, twiceVars, waitVars, genVars, canonVars, rosterVars>>

\* The values a part's variables keep while another part is driven.
RetryIdle ==
    /\ r_pc = "off"
    /\ r_gen = <<>>
    /\ r_last_ex = <<>>
    /\ r_calls = <<>>
    /\ r_slept = <<>>
    /\ r_outcome = <<>>

DeadlineIdle ==
    /\ d_commits = <<>>
    /\ d_tags = <<>>
    /\ d_query = <<>>
    /\ d_result = <<>>
    /\ d_again = <<>>

ServerIdle == s_projects = <<>>

ForkIdle == f_log = <<>>

BatchIdle ==
    /\ b_cmd = <<>>
    /\ b_start = <<>>
    /\ b_kills = <<>>
    /\ b_pc = <<>>
    /\ b_to_project = <<>>
    /\ b_err = <<>>

GatherIdle ==
    /\ g_cmd = <<>>
    /\ g_roster = <<>>
    /\ g_commits = <<>>
    /\ g_pc = <<>>
    /\ g_out = <<>>
    /\ g_err = <<>>
    /\ g_commit = <<>>
    /\ g_calls = <<>>

PutIdle ==
    /\ p_log = <<>>

TwiceIdle ==
    /\ t_cmd = <<>>
    /\ t_runs = <<>>

WaitIdle ==
    /\ w_args = <<>>
    /\ w_pc = <<>>
    /\ w_gen = <<>>
    /\ w_project = <<>>
    /\ w_truth = <<>>
    /\ w_fetches = <<>>
    /\ w_slept = <<>>
    /\ w_outcome = <<>>

GenIdle ==
    /\ q_args = <<>>
    /\ q_pc = <<>>
    /\ q_gen = <<>>
    /\ q_runs = <<>>
    /\ q_outcome = <<>>

CanonIdle ==
    /\ c_log = <<>>

RosterIdle ==
    /\ o_cmd = <<>>
    /\ o_roster = <<>>
    /\ o_branches = <<>>
    /\ o_pc = <<>>
    /\ o_seen = <<>>
    /\ o_log = <<>>
    /\ o_err = <<>>

UnforkIdle ==
    /\ u_log = <<>>

(***************************************************************************)
(* Exceptions.  An exception is a record: its class, the HTTP status of    *)
(* the response behind it (0: none), the number of the invocation that     *)
(* raised it (0: raised outside the wrapped function) and its __context__  *)
(* (<<>>: None).                                                           *)
(***************************************************************************)
CONFLICT == 409
BAD_REQUEST == 400
NOT_MODIFIED == 304
NOT_FOUND == 404

\* The class hierarchy of the exception classes the program meets
\* (requests.exceptions and gitlab.exceptions), as isinstance sees it.
Superclasses(cls) ==
    CASE cls = "ConnectionError"   -> {"ConnectionError", "RequestException", "Exception"}
      [] cls = "ReadTimeout"       -> {"ReadTimeout", "Timeout", "RequestException", "Exception"}
      [] cls = "GitlabHttpError"   -> {"GitlabHttpError", "GitlabError", "Exception"}
      [] cls = "GitlabGetError"    -> {"GitlabGetError", "GitlabOperationError", "GitlabError", "Exception"}
      [] cls = "GitlabCreateError" -> {"GitlabCreateError", "GitlabOperationError", "GitlabError", "Exception"}
      [] cls = "GitlabDeleteError" -> {"GitlabDeleteError", "GitlabOperationError", "GitlabError", "Exception"}
      [] OTHER                     -> {"Exception"}

isinstance(ex, cls) == cls \in Superclasses(ex.cls)

\* Every exception taken for a failure of the network.
RetryExceptions_every == {"Exception"}

\* The `exceptions` argument of the three @retry_on_exception decorations.
RetryExceptions == {"ConnectionError", "ReadTimeout", "GitlabHttpError"}

MkEx(cls, code, at) == [cls |-> cls, code |-> code, at |-> at, context |-> <<>>]

\* Exception(message) of retries(): raised by the generator when the for
\* statement resumes it, outside any except block, so its __context__ is None.
TimedOutEx == [cls |-> "TimedOut", code |-> 0, at |-> 0, context |-> <<>>]

(***************************************************************************)
(* retries(n, interval, timeout): the generator.  An optional argument is *)
(* None (<<>>) or Some(x) (<<x>>).                                         *)
(***************************************************************************)
None == <<>>
Some(x) == <<x>>
DefaultInterval == 2
RetryAttempts == 6
WrapperSleep == 3

\* The check of lines 32-33 left out: one interval is the budget.
retries_enter_unchecked(n, interval, timeout) ==
    [raised    |-> FALSE,
     remaining |-> IF timeout # <<>> THEN timeout[1]
                   ELSE IF n # <<>> THEN n[1] * interval ELSE interval,
     n         |-> 0,
     interval  |-> interval,
     yielded   |-> FALSE]

\* Lines 32-38: the generator's state before its first resumption.
retries_enter(n, interval, timeout) ==
    IF n = None /\ timeout = None
    THEN [raised |-> TRUE, remaining |-> 0, n |-> 0, interval |-> interval, yielded |-> FALSE]
    ELSE [raised    |-> FALSE,
          remaining |-> IF timeout = None THEN n[1] * interval ELSE timeout[1],
          n         |-> 0,
          interval  |-> interval,
          yielded   |-> FALSE]

\* The budget never found used up.
retries_yields_forever(gen) == TRUE

\* The loop test off by one interval: the last attempt is never yielded.
retries_yields_early(gen) == gen.remaining > gen.interval

\* Lines 39 and 44: does the next resumption yield (TRUE) or raise (FALSE)?
retries_yields(gen) == gen.remaining > 0

\* Lines 40-42: the generator after yielding once more.
retries_next(gen) ==
    [gen EXCEPT !.remaining = gen.remaining - gen.interval,
                !.n = gen.n + 1,
                !.yielded = TRUE]

\* Line 43: the sleep on resumption after a yield.
retries_sleep(gen) == IF gen.yielded THEN gen.interval ELSE 0

(***************************************************************************)
(* retry_on_exception.wrapper, lines 59-73.                                *)
(***************************************************************************)
\* Lines 65-69: the inner loop over `exceptions`; its `continue` continues
\* that inner loop, so all it does is set last_ex when ex is an instance.
wrapper_last_ex(last_ex, ex, exceptions) ==
    IF \E allowed \in exceptions : isinstance(ex, allowed) THEN <<ex>> ELSE last_ex

\* Lines 70-71: `if not last_ex: raise ex`, tested after the inner loop.
wrapper_reraises(last_ex, ex, exceptions) ==
    wrapper_last_ex(last_ex, ex, exceptions) = None

\* What the wrapped function does when invoked: a value of Values or an
\* exception of one of these classes.
Values == {"v1", "v2"}
RaisedClasses == {"ConnectionError", "ReadTimeout", "GitlabHttpError",
                  "GitlabGetError", "GitlabCreateError"}

Returned(v) == [kind |-> "return", val |-> <<v>>, ex |-> None]
Raised(ex) == [kind |-> "raise", val |-> None, ex |-> <<ex>>]

\* Lines 59-61: wrapper entered, `for i in retries(6)` about to start.
InitRetry ==
    /\ r_pc = "for"
    /\ r_gen = retries_enter(Some(RetryAttempts), DefaultInterval, None)
    /\ r_last_ex = None
    /\ r_calls = <<>>
    /\ r_slept = <<>>
    /\ r_outcome = <<>>
    /\ DeadlineIdle /\ ServerIdle /\ ForkIdle /\ BatchIdle /\ GatherIdle /\ PutIdle /\ TwiceIdle /\ WaitIdle /\ GenIdle /\ CanonIdle /\ RosterIdle /\ UnforkIdle

AddSleep(slept, secs) ==
    IF slept = <<>> \/ secs = 0 THEN slept
    ELSE [slept EXCEPT ![Len(slept)] = @ + secs]

\* Line 61: the for statement resumes the generator, which sleeps (line 43)
\* if it has yielded before and then yields the next attempt.
ForYield ==
    /\ r_pc = "for"
    /\ ~r_gen.raised
    /\ retries_yields(r_gen)
    /\ r_slept' = AddSleep(r_slept, retries_sleep(r_gen))
    /\ r_gen' = retries_next(r_gen)
    /\ r_pc' = "try"
    /\ UNCHANGED <<r_last_ex, r_calls, r_outcome>>
    /\ UNCHANGED notRetry

\* Lines 39, 43-44: the budget is used up; the generator raises, and the
\* exception leaves the wrapper through the for statement.
ForTimedOut ==
    /\ r_pc = "for"
    /\ ~r_gen.raised
    /\ ~retries_yields(r_gen)
    /\ r_slept' = AddSleep(r_slept, retries_sleep(r_gen))
    /\ r_outcome' = <<Raised(TimedOutEx)>>
    /\ r_pc' = "done"
    /\ UNCHANGED <<r_gen, r_last_ex, r_calls>>
    /\ UNCHANGED notRetry

\* Lines 62-63: func returns, and the wrapper returns its value.
TryReturn ==
    /\ r_pc = "try"
    /\ \E v \in Values :
         /\ r_calls' = Append(r_calls, Returned(v))
         /\ r_outcome' = <<Returned(v)>>
    /\ r_slept' = Append(r_slept, 0)
    /\ r_pc' = "done"
    /\ UNCHANGED <<r_gen, r_last_ex>>
    /\ UNCHANGED notRetry

\* Lines 64-72: func raises ex.
TryExcept ==
    /\ r_pc = "try"
    /\ \E cls \in RaisedClasses :
         LET ex == MkEx(cls, 0, Len(r_calls) + 1) IN
         /\ r_calls' = Append(r_calls, Raised(ex))
         /\ r_last_ex' = wrapper_last_ex(r_last_ex, ex, RetryExceptions)
         /\ IF wrapper_reraises(r_last_ex, ex, RetryExceptions)
            THEN /\ r_outcome' = <<Raised(ex)>>
                 /\ r_slept' = Append(r_slept, 0)
                 /\ r_pc' = "done"
            ELSE /\ r_outcome' = r_outcome
                 /\ r_slept' = Append(r_slept, WrapperSleep)
                 /\ r_pc' = "for"
    /\ UNCHANGED r_gen
    /\ UNCHANGED notRetry

NextRetry == ForYield \/ ForTimedOut \/ TryReturn \/ TryExcept

(***************************************************************************)
(* The deadline commit resolver: get_timestamp, get_commit_with_tag and    *)
(* get_commit_before_deadline (utils.py lines 197-248), against one        *)
(* repository that receives commits and tags.                              *)
(*                                                                         *)
(* A timestamp string is [t, zone]: the clock reading it spells and the    *)
(* zone it names ("naive": none).  Commit number i is made at instant i.   *)
(***************************************************************************)
MaxCommits == 2
Authors == {"student", "teacher"}
CommitZones == {"utc", "plus1"}
DeadlineZones == {"naive", "plus1"}
TagNames == {"submit", "draft"}
Branch == "main"

Offset(zone) == IF zone = "plus1" THEN 1 ELSE 0

\* The string the server or the user writes for an instant in a zone.
Format(instant, zone) == [t |-> instant + Offset(zone), zone |-> zone]

\* get_timestamp, lines 202-208: dateparser.parse, then a naive result is
\* localized to UTC; an aware one makes localize raise ValueError and is
\* returned as parsed.
get_timestamp(ts) == IF ts.zone = "naive" THEN [t |-> ts.t, zone |-> "utc"] ELSE ts

\* `a <= b` of two aware datetimes compares the instants.
aware_le(a, b) == a.t - Offset(a.zone) <= b.t - Offset(b.zone)

Reverse(s) == [i \in 1..Len(s) |-> s[Len(s) + 1 - i]]

\* project.tags.list()
tags_list(project) == project.tags

\* project.commits.get(id)
commits_get(project, id) == project.commits[id]

\* `until` ignored: every commit of the branch is listed.
commits_list_no_until(project, ref_name, until) ==
    LET OnRef(c) == c.branch = ref_name
    IN  SelectSeq(Reverse(project.commits), OnRef)

\* project.commits.list(ref_name=branch, until=deadline), line 244: the
\* server's answer, the commits of the branch made at or before `until`,
\* newest first.
commits_list(project, ref_name, until) ==
    LET InList(c) == c.branch = ref_name
                     /\ aware_le(get_timestamp(c.created_at), get_timestamp(until))
    IN  SelectSeq(Reverse(project.commits), InList)

\* The filter that accepts every commit.
commit_filter_accepts_all(blacklist, commit) == TRUE

\* The `not` of the lambda left out: the blacklisted authors are the ones kept.
commit_filter_inverted(blacklist, commit) ==
    blacklist # None /\ commit.author_email \in blacklist[1]

\* The commit_filter lambdas of the callers (teachers_gitlab.py lines
\* 587-590): no blacklist accepts everything; a blacklist rejects the
\* authors its pattern matches (the pattern is the set it matches).
commit_filter(blacklist, commit) ==
    blacklist = None \/ commit.author_email \notin blacklist[1]

\* get_commit_with_tag, lines 216-219.
RECURSIVE first_tag_named(_, _)
first_tag_named(tags, tag_name) ==
    IF tags = <<>> THEN None
    ELSE IF Head(tags).name = tag_name THEN Some(Head(tags).commit)
    ELSE first_tag_named(Tail(tags), tag_name)

get_commit_with_tag(project, tag_name) == first_tag_named(tags_list(project), tag_name)

\* Lines 245-248: the first listed commit the filter accepts, or the
\* GitlabGetError("No matching commit found.").
RECURSIVE first_passing(_, _)
first_passing(commits, blacklist) ==
    IF commits = <<>> THEN Raised(MkEx("GitlabGetError", 0, 0))
    ELSE IF commit_filter(blacklist, Head(commits)) THEN Returned(Head(commits))
    ELSE first_passing(Tail(commits), blacklist)

\* The deadline test forgotten: a tag that exists always wins.
tag_in_time_always(ts, ts_deadline) == TRUE

\* The deadline test made strict.
tag_in_time_strict(ts, ts_deadline) == aware_le(ts, ts_deadline) /\ ~aware_le(ts_deadline, ts)

\* Line 238: `if ts <= ts_deadline`.
tag_in_time(ts, ts_deadline) == aware_le(ts, ts_deadline)

\* get_commit_before_deadline, lines 232-248.  `tag` is None or Some(name).
get_commit_before_deadline(project, deadline, branch, blacklist, tag) ==
    LET commit == IF tag # None THEN get_commit_with_tag(project, tag[1]) ELSE None
        history == first_passing(commits_list(project, branch, deadline), blacklist)
    IN  IF commit # None
        THEN IF tag_in_time(get_timestamp(commit[1].created_at), get_timestamp(deadline))
             THEN Returned(commits_get(project, commit[1].id))
             ELSE history
        ELSE history

InitDeadline == DeadlineIdle /\ RetryIdle /\ ServerIdle /\ ForkIdle /\ BatchIdle /\ GatherIdle /\ PutIdle /\ TwiceIdle /\ WaitIdle /\ GenIdle /\ CanonIdle /\ RosterIdle /\ UnforkIdle

\* A commit is pushed to the repository, on the branch or beside it.
Push ==
    /\ d_query = <<>>
    /\ Len(d_commits) < MaxCommits
    /\ \E zone \in CommitZones, a \in Authors, b \in {Branch, "other"} :
         LET id == Len(d_commits) + 1 IN
         d_commits' = Append(d_commits,
             [id |-> id, created_at |-> Format(id, zone), author_email |-> a, branch |-> b])
    /\ UNCHANGED <<d_tags, d_query, d_result, d_again>>
    /\ UNCHANGED notDeadline

\* A tag is created on one of the commits; the tag carries the commit's
\* id and created_at, as the tags API gives them.
CreateTag ==
    /\ d_query = <<>>
    /\ \E name \in TagNames, i \in 1..Len(d_commits) :
         /\ \A k \in 1..Len(d_tags) : d_tags[k].name # name
         /\ d_tags' = Append(d_tags,
                [name |-> name,
                 commit |-> [id |-> i, created_at |-> d_commits[i].created_at]])
    /\ UNCHANGED <<d_commits, d_query, d_result, d_again>>
    /\ UNCHANGED notDeadline

\* A request that removes what it reads.
project_after_reads_losing_tags(project) == [project EXCEPT !.tags = <<>>]

\* The repository after the remote calls of get_commit_before_deadline:
\* tags.list (line 216), commits.get (line 239) and commits.list (line 244)
\* are GET requests, the server's store is as before.
project_after_reads(project) == project

\* One call of get_commit_before_deadline.
Resolve ==
    /\ d_query = <<>>
    /\ \E instant \in 0..MaxCommits, zone \in DeadlineZones,
          blacklist \in {None, Some({"teacher"})},
          tag \in {None} \cup {Some(n) : n \in TagNames} :
         LET deadline == Format(instant, zone)
             project == [commits |-> d_commits, tags |-> d_tags]
         IN  /\ d_query' = <<[deadline |-> deadline, blacklist |-> blacklist, tag |-> tag,
                               before |-> project]>>
             /\ d_result' = <<get_commit_before_deadline(project, deadline, Branch, blacklist, tag)>>
             /\ d_commits' = project_after_reads(project).commits
             /\ d_tags' = project_after_reads(project).tags
    /\ UNCHANGED d_again
    /\ UNCHANGED notDeadline

\* The same call once more, with the repository as the first call left it.
ResolveAgain ==
    /\ d_query # <<>>
    /\ d_again = <<>>
    /\ LET project == [commits |-> d_commits, tags |-> d_tags]
           q == d_query[1]
       IN  /\ d_again' = <<get_commit_before_deadline(project, q.deadline, Branch,
                                                      q.blacklist, q.tag)>>
           /\ d_commits' = project_after_reads(project).commits
           /\ d_tags' = project_after_reads(project).tags
    /\ UNCHANGED <<d_query, d_result>>
    /\ UNCHANGED notDeadline

NextDeadline == Push \/ CreateTag \/ Resolve \/ ResolveAgain

(***************************************************************************)
(* The wrapper as one call: what retry_on_exception gives its caller when  *)
(* invocation i of the wrapped function ends as outcomes[i] (the last      *)
(* entry standing for every later invocation).                             *)
(***************************************************************************)
RECURSIVE wrapper_loop(_, _, _)
wrapper_loop(gen, last_ex, outcomes) ==
    IF ~retries_yields(gen) THEN Raised(TimedOutEx)
    ELSE LET g == retries_next(gen)
             o == outcomes[IF g.n <= Len(outcomes) THEN g.n ELSE Len(outcomes)]
         IN  IF o.kind = "return" THEN o
             ELSE IF wrapper_reraises(last_ex, o.ex[1], RetryExceptions) THEN o
             ELSE wrapper_loop(g, wrapper_last_ex(last_ex, o.ex[1], RetryExceptions), outcomes)

retry_on_exception(outcomes) ==
    wrapper_loop(retries_enter(Some(RetryAttempts), DefaultInterval, None), None, outcomes)

\* `faults` connection errors, then the answer.
AfterFaults(faults, answer) ==
    [i \in 1..(faults + 1) |->
        IF i <= faults THEN Raised(MkEx("ConnectionError", 0, i)) ELSE answer]

(***************************************************************************)
(* The server (the GitLab instance behind glb), as far as the program      *)
(* reads and changes it.  A project is [path, forked_from, empty_repo,     *)
(* members, file]; a path is <<namespace, name>>.                          *)
(***************************************************************************)
ParentPath == <<"base", "repo">>
StudentNamespace == "student"
Logins == {"alpha", "beta"}

NewProject(path, forked_from, empty) ==
    [path |-> path, forked_from |-> forked_from, empty_repo |-> empty,
     members |-> {}, file |-> None]

\* What the client holds of a project: a gitlab.v4.objects.Project.
Handle(projects, i) ==
    [id |-> i, path_with_namespace |-> projects[i].path, empty_repo |-> projects[i].empty_repo]

\* A repository reference: a numeric id, a path string, a Project object,
\* or an object of another type.
NoHandle == [id |-> 0, path_with_namespace |-> <<>>, empty_repo |-> FALSE]
IdRef(id) == [kind |-> "id", id |-> id, path |-> <<>>, handle |-> NoHandle]
PathRef(path) == [kind |-> "path", id |-> 0, path |-> path, handle |-> NoHandle]
HandleRef(handle) == [kind |-> "handle", id |-> 0, path |-> <<>>, handle |-> handle]
OtherRef == [kind |-> "other", id |-> 0, path |-> <<>>, handle |-> NoHandle]

\* glb.projects.get(id or path): GET /projects/:id
projects_get(projects, ref) ==
    LET found == {i \in 1..Len(projects) :
                    \/ ref.kind = "id" /\ i = ref.id
                    \/ ref.kind = "path" /\ projects[i].path = ref.path}
    IN  IF found = {} THEN Raised(MkEx("GitlabGetError", NOT_FOUND, 0))
        ELSE Returned(Handle(projects, CHOOSE i \in found : TRUE))

\* parent.forks.create({namespace, path, name}): POST /projects/:id/fork.
\* The server refuses a path that is taken with 409; `fault` is a failure
\* of another kind ("refused": the server rejects the request, "offline":
\* the connection fails), which leaves the server as it was.
forks_create(projects, parent_id, fork_namespace, fork_name, fault) ==
    LET path == <<fork_namespace, fork_name>> IN
    IF fault = "refused"
    THEN [resp |-> Raised(MkEx("GitlabCreateError", NOT_FOUND, 0)), projects |-> projects]
    ELSE IF fault = "offline"
    THEN [resp |-> Raised(MkEx("ConnectionError", 0, 0)), projects |-> projects]
    ELSE IF \E i \in 1..Len(projects) : projects[i].path = path
    THEN [resp |-> Raised(MkEx("GitlabCreateError", CONFLICT, 0)), projects |-> projects]
    ELSE [resp |-> Returned([id |-> Len(projects) + 1]),
          projects |-> Append(projects, NewProject(path, Some(parent_id), TRUE))]

(***************************************************************************)
(* get_canonical_project, lines 77-89, under its retry decoration.         *)
(***************************************************************************)
\* A Project object looked up again by its path.
canonical_project_body_refetching(projects, project) ==
    IF project.kind \in {"id", "path"} THEN projects_get(projects, project)
    ELSE IF project.kind = "handle"
    THEN projects_get(projects, PathRef(project.handle.path_with_namespace))
    ELSE Raised(MkEx("Exception", 0, 0))

\* Lines 85-89, one invocation.
canonical_project_body(projects, project) ==
    IF project.kind \in {"id", "path"} THEN projects_get(projects, project)
    ELSE IF project.kind = "handle" THEN Returned(project.handle)
    ELSE Raised(MkEx("Exception", 0, 0))

\* The decorated function; `faults` connection errors meet its remote call.
get_canonical_project(projects, project, faults) ==
    retry_on_exception(
        IF project.kind \in {"id", "path"}
        THEN AfterFaults(faults, canonical_project_body(projects, project))
        ELSE <<canonical_project_body(projects, project)>>)

(***************************************************************************)
(* fork_project_idempotent, lines 108-128.                                 *)
(***************************************************************************)
\* The format arguments swapped.
conflict_identity_swapped(fork_namespace, fork_name) == PathRef(<<fork_name, fork_namespace>>)

\* Line 124: "{}/{}".format(fork_namespace, fork_name)
conflict_identity(fork_namespace, fork_name) == PathRef(<<fork_namespace, fork_name>>)

\* Every GitlabCreateError taken for a conflict.
is_conflict_any_code(exp) == isinstance(exp, "GitlabCreateError")

\* Lines 122-123: except gitlab.GitlabCreateError with response_code CONFLICT.
is_conflict(exp) == isinstance(exp, "GitlabCreateError") /\ exp.code = CONFLICT

\* The call: [result, projects (the server afterwards), create (the answer
\* to forks.create, <<>> if it was not reached)].
fork_project_idempotent(projects, parent, fork_namespace, fork_name, fault, faults) ==
    LET p == get_canonical_project(projects, parent, faults) IN
    IF p.kind = "raise" THEN [result |-> p, projects |-> projects, create |-> <<>>]
    ELSE
    LET created == forks_create(projects, p.val[1].id, fork_namespace, fork_name, fault)
        resp == created.resp
    IN  IF resp.kind = "raise" /\ ~is_conflict(resp.ex[1])
        THEN [result |-> resp, projects |-> created.projects, create |-> <<resp>>]
        ELSE
        LET fork_identity == IF resp.kind = "return" THEN IdRef(resp.val[1].id)
                             ELSE conflict_identity(fork_namespace, fork_name)
        IN  [result |-> get_canonical_project(created.projects, fork_identity, faults),
             projects |-> created.projects,
             create |-> <<resp>>]

(***************************************************************************)
(* SpecFork: calls of fork_project_idempotent against the server, which    *)
(* fills the forks it has created in its own time.                         *)
(***************************************************************************)
MaxForkCalls == 2
CreateFaults == {"none", "refused", "offline"}
FaultCounts == {0, 1, RetryAttempts}

ProjectSet(projects) == {<<i, projects[i].path>> : i \in 1..Len(projects)}

\* The parent exists; a project may already sit at a student's path.
InitFork ==
    /\ \E taken \in SUBSET {"alpha"} :
         s_projects = <<NewProject(ParentPath, None, FALSE)>> \o
            (IF "alpha" \in taken
             THEN <<NewProject(<<StudentNamespace, "alpha">>, None, FALSE)>> ELSE <<>>)
    /\ f_log = <<>>
    /\ RetryIdle /\ DeadlineIdle /\ BatchIdle /\ GatherIdle /\ PutIdle /\ TwiceIdle /\ WaitIdle /\ GenIdle /\ CanonIdle /\ RosterIdle /\ UnforkIdle

ForkCall ==
    /\ Len(f_log) < MaxForkCalls
    /\ \E parent \in {PathRef(ParentPath), HandleRef(Handle(s_projects, 1))},
          name \in Logins, fault \in CreateFaults, faults \in FaultCounts :
         LET call == fork_project_idempotent(s_projects, parent, StudentNamespace, name,
                                             fault, faults)
         IN  /\ s_projects' = call.projects
             /\ f_log' = Append(f_log,
                    [parent |-> 1, namespace |-> StudentNamespace, name |-> name,
                     fault |-> fault, faults |-> faults,
                     create |-> call.create, result |-> call.result,
                     before |-> ProjectSet(s_projects), after |-> ProjectSet(call.projects)])
    /\ UNCHANGED notFork

\* The server finishes filling a fork.
Populate ==
    /\ \E i \in 1..Len(s_projects) :
         /\ s_projects[i].empty_repo
         /\ s_projects' = [s_projects EXCEPT ![i].empty_repo = FALSE]
    /\ UNCHANGED f_log
    /\ UNCHANGED notFork

NextFork == ForkCall \/ Populate

(***************************************************************************)
(* The other remote calls of the mutators, and the mutators.               *)
(***************************************************************************)
\* str.encode('utf-8'), base64 as the blob API applies it, base64.b64decode.
encode_utf8(text) == [utf8 |-> text]
b64encode(bytes) == [b64 |-> bytes]

\* The content taken as it comes, undecoded.
b64decode_skipped(content) == content

b64decode(content) == content.b64

\* project.delete_fork_relation(): DELETE /projects/:id/fork, answered 304
\* when the project has no fork relation.
delete_fork_relation(projects, id) ==
    IF projects[id].forked_from = None
    THEN [resp |-> Raised(MkEx("GitlabDeleteError", NOT_MODIFIED, 0)), projects |-> projects]
    ELSE [resp |-> Returned(None), projects |-> [projects EXCEPT ![id].forked_from = None]]

\* project.members.create({user_id, access_level}): POST /projects/:id/members,
\* answered 409 when the user is a member already.
members_create(projects, id, user_id, access_level) ==
    IF \E m \in projects[id].members : m.user_id = user_id
    THEN [resp |-> Raised(MkEx("GitlabCreateError", CONFLICT, 0)), projects |-> projects]
    ELSE [resp |-> Returned(None),
          projects |-> [projects EXCEPT ![id].members =
                            @ \cup {[user_id |-> user_id, access_level |-> access_level]}]]

\* project.commits.create(commit_data) with one action on the file: POST
\* /projects/:id/repository/commits, answered 400 when the file to create
\* exists or the file to update does not.
commits_create(projects, id, action, content) ==
    IF (action = "create") = (projects[id].file # None)
    THEN [resp |-> Raised(MkEx("GitlabCreateError", BAD_REQUEST, 0)), projects |-> projects]
    ELSE [resp |-> Returned(None),
          projects |-> [projects EXCEPT ![id].file = Some(encode_utf8(content))]]

\* project.repository_tree / project.repository_blob of the file.
repository_blob(projects, id) == [content |-> b64encode(projects[id].file[1])]

\* project.delete_fork_relation() on a network that can fail: "refused" is
\* a rejection other than 304, "offline" a failed connection.
delete_fork_relation_under(projects, id, fault) ==
    IF fault = "refused"
    THEN [resp |-> Raised(MkEx("GitlabDeleteError", NOT_FOUND, 0)), projects |-> projects]
    ELSE IF fault = "offline"
    THEN [resp |-> Raised(MkEx("ConnectionError", 0, 0)), projects |-> projects]
    ELSE delete_fork_relation(projects, id)

\* Every rejection of the delete taken for "not modified".
is_not_modified_any_code(exp) == isinstance(exp, "GitlabDeleteError")

\* The 304 not recognised.
is_not_modified_never(exp) == FALSE

\* Lines 139-140 of remove_fork_relationship.
is_not_modified(exp) == isinstance(exp, "GitlabDeleteError") /\ exp.code = NOT_MODIFIED

\* remove_fork_relationship, lines 131-143: [result, projects, delete (the
\* answer to the delete, <<>> if it was not reached)].  `faults` connection
\* errors meet the lookup and `fault` meets the delete.
remove_fork_relationship(projects, project, faults, fault) ==
    CHOOSE out \in
      {IF p.kind = "raise" THEN [result |-> p, projects |-> projects, delete |-> <<>>]
       ELSE CHOOSE deleted \in
         {IF d.resp.kind = "raise" /\ ~is_not_modified(d.resp.ex[1])
          THEN [result |-> d.resp, projects |-> d.projects, delete |-> <<d.resp>>]
          ELSE [result |-> Returned(None), projects |-> d.projects, delete |-> <<d.resp>>] :
            d \in {delete_fork_relation_under(projects, p.val[1].id, fault)}} : TRUE :
          p \in {get_canonical_project(projects, project, faults)}} : TRUE

\* put_file, lines 151-173, one invocation: [result, projects]; the result
\* is Returned(None) for the not-written signal.
put_file_body(projects, project, file_contents, overwrite) ==
    LET p == get_canonical_project(projects, project, 0) IN
    IF p.kind = "raise" THEN [result |-> p, projects |-> projects]
    ELSE
    LET id == p.val[1].id
        created == commits_create(projects, id, "create", file_contents)
    IN  IF created.resp.kind = "return"
        THEN [result |-> Returned(Some("commit")), projects |-> created.projects]
        ELSE IF ~(isinstance(created.resp.ex[1], "GitlabCreateError")
                  /\ created.resp.ex[1].code = BAD_REQUEST)
        THEN [result |-> created.resp, projects |-> created.projects]
        ELSE IF ~overwrite
        THEN [result |-> Returned(None), projects |-> created.projects]
        ELSE LET updated == commits_create(created.projects, id, "update", file_contents) IN
             [result |-> IF updated.resp.kind = "return" THEN Returned(Some("commit"))
                         ELSE updated.resp,
              projects |-> updated.projects]

\* put_file under its retry decoration, on a network without faults.
put_file(projects, project, file_contents, overwrite) ==
    LET b == put_file_body(projects, project, file_contents, overwrite) IN
    [result |-> retry_on_exception(<<b.result>>), projects |-> b.projects]

\* get_file_contents, lines 181-194, under its retry decoration, on a
\* network without faults: Returned(None) or Returned(Some(bytes)).
get_file_contents(projects, project) ==
    LET p == get_canonical_project(projects, project, 0) IN
    retry_on_exception(<<
        IF p.kind = "raise" THEN p
        ELSE IF projects[p.val[1].id].file = None THEN Returned(None)
        ELSE Returned(Some(b64decode(repository_blob(projects, p.val[1].id).content)))>>)

(***************************************************************************)
(* The batch commands fork, add-member and put-file of teachers_gitlab.py, *)
(* over the roster, one remote change per step.  A run can be killed       *)
(* between any two steps and the same command started again.               *)
(***************************************************************************)
MaxKills == 1
Roster == <<"alpha", "beta">>
LocalFileContent == "new"
AccessLevel == "DEVELOPER_ACCESS"

ProjectPath(login) == <<StudentNamespace, login>>

Commands ==
    [name : {"fork"}, hide_fork : BOOLEAN, dry_run : {FALSE},
     force_commit : {FALSE}, only_once : {FALSE}]
    \cup [name : {"add-member"}, hide_fork : {FALSE}, dry_run : BOOLEAN,
          force_commit : {FALSE}, only_once : {FALSE}]
    \cup [name : {"put-file"}, hide_fork : {FALSE}, dry_run : BOOLEAN,
          force_commit : BOOLEAN, only_once : BOOLEAN]

FirstStep(cmd) == IF cmd.name = "fork" THEN "fork" ELSE "entry"

StartPc(cmd) == [entry |-> 1, step |-> FirstStep(cmd)]

\* The for loop goes on to the next roster entry, or ends.
NextEntry(cmd, pc) ==
    IF pc.entry = Len(Roster) THEN [entry |-> pc.entry + 1, step |-> "done"]
    ELSE [entry |-> pc.entry + 1, step |-> FirstStep(cmd)]

Failed(pc) == [entry |-> pc.entry, step |-> "failed"]

\* as_existing_gitlab_projects, lines 307-320, for one row (duplicates
\* allowed): the project of the row, Returned(None) when it is skipped
\* because the lookup answers GitlabGetError, or the lookup's other failure.
existing_project(projects, login) ==
    LET p == get_canonical_project(projects, PathRef(ProjectPath(login)), 0) IN
    IF p.kind = "return" THEN Returned(Some(p.val[1]))
    ELSE IF isinstance(p.ex[1], "GitlabGetError") THEN Returned(None)
    ELSE p

\* action_add_member, lines 513-535, for one row: [result, projects].
add_member_entry(projects, cmd, login) ==
    LET e == existing_project(projects, login) IN
    IF e.kind = "raise" THEN [result |-> e, projects |-> projects]
    ELSE IF e.val[1] = None \/ cmd.dry_run THEN [result |-> Returned(None), projects |-> projects]
    ELSE LET m == members_create(projects, e.val[1][1].id, login, AccessLevel) IN
         IF m.resp.kind = "raise" /\ ~isinstance(m.resp.ex[1], "GitlabCreateError")
         THEN [result |-> m.resp, projects |-> m.projects]
         ELSE [result |-> Returned(None), projects |-> m.projects]

\* The commit made whatever --dry-run says.
put_file_entry_undry(projects, cmd, login) ==
    LET e == existing_project(projects, login) IN
    IF e.kind = "raise" THEN [result |-> e, projects |-> projects]
    ELSE IF e.val[1] = None THEN [result |-> Returned(None), projects |-> projects]
    ELSE
    LET project == HandleRef(e.val[1][1])
        current == IF cmd.force_commit THEN Returned(None)
                   ELSE get_file_contents(projects, project)
    IN  IF current.kind = "raise" THEN [result |-> current, projects |-> projects]
        ELSE
        LET already_exists == ~cmd.force_commit /\ current.val[1] # None
            commit_needed ==
                IF cmd.force_commit THEN TRUE
                ELSE IF already_exists
                     THEN current.val[1][1] # encode_utf8(LocalFileContent)
                     ELSE TRUE
        IN  IF commit_needed
            THEN LET put == put_file(projects, project, LocalFileContent, ~cmd.only_once)
                 IN  [result |-> IF put.result.kind = "raise" THEN put.result
                                 ELSE Returned(None),
                      projects |-> put.projects]
            ELSE [result |-> Returned(None), projects |-> projects]

\* action_put_file, lines 684-728, for one row: [result, projects].
put_file_entry(projects, cmd, login) ==
    LET e == existing_project(projects, login) IN
    IF e.kind = "raise" THEN [result |-> e, projects |-> projects]
    ELSE IF e.val[1] = None THEN [result |-> Returned(None), projects |-> projects]
    ELSE
    LET project == HandleRef(e.val[1][1])
        current == IF cmd.force_commit THEN Returned(None)
                   ELSE get_file_contents(projects, project)
    IN  IF current.kind = "raise" THEN [result |-> current, projects |-> projects]
        ELSE
        LET already_exists == ~cmd.force_commit /\ current.val[1] # None
            commit_needed ==
                IF cmd.force_commit THEN TRUE
                ELSE IF already_exists
                     THEN current.val[1][1] # encode_utf8(LocalFileContent)
                     ELSE TRUE
        IN  IF commit_needed /\ ~cmd.dry_run
            THEN LET put == put_file(projects, project, LocalFileContent, ~cmd.only_once)
                 IN  [result |-> IF put.result.kind = "raise" THEN put.result
                                 ELSE Returned(None),
                      projects |-> put.projects]
            ELSE [result |-> Returned(None), projects |-> projects]

\* The server at the start: the parent project, and for each student
\* either no project or one with or without the file and the membership.
InitBatch ==
    /\ b_cmd \in Commands
    /\ \E a, b \in {None} \cup
            {Some([file |-> f, member |-> m]) :
                f \in {None, Some(encode_utf8("old")), Some(encode_utf8(LocalFileContent))},
                m \in BOOLEAN} :
         LET Student(login, x) ==
                 IF x = None THEN <<>>
                 ELSE <<[NewProject(ProjectPath(login), None, FALSE)
                            EXCEPT !.file = x[1].file,
                                   !.members = IF x[1].member
                                               THEN {[user_id |-> login,
                                                      access_level |-> "REPORTER_ACCESS"]}
                                               ELSE {}]>>
         IN  s_projects = <<NewProject(ParentPath, None, FALSE)>>
                              \o Student("alpha", a) \o Student("beta", b)
    /\ b_start = s_projects
    /\ b_kills = <<>>
    /\ b_pc = StartPc(b_cmd)
    /\ b_to_project = NoHandle
    /\ b_err = <<>>
    /\ RetryIdle /\ DeadlineIdle /\ ForkIdle /\ GatherIdle /\ PutIdle /\ TwiceIdle /\ WaitIdle /\ GenIdle /\ CanonIdle /\ RosterIdle /\ UnforkIdle

Login == Roster[b_pc.entry]

\* action_fork, lines 384-396: the row's fork is created or found.
ForkEntry ==
    /\ b_cmd.name = "fork" /\ b_pc.step = "fork"
    /\ LET from_project == get_canonical_project(s_projects, PathRef(ParentPath), 0)
           call == fork_project_idempotent(s_projects, HandleRef(from_project.val[1]),
                                           StudentNamespace, Login, "none", 0)
       IN  /\ s_projects' = call.projects
           /\ IF call.result.kind = "raise"
              THEN /\ b_err' = call.result.ex
                   /\ b_pc' = Failed(b_pc)
                   /\ b_to_project' = b_to_project
              ELSE /\ b_err' = b_err
                   /\ b_pc' = [b_pc EXCEPT !.step = "wait"]
                   /\ b_to_project' = call.result.val[1]
    /\ UNCHANGED <<b_cmd, b_start, b_kills>>
    /\ UNCHANGED notBatch

\* The wait over at the first look, whatever the project held shows.
WaitReturn_unlooked ==
    /\ b_cmd.name = "fork" /\ b_pc.step = "wait"
    /\ b_pc' = IF b_cmd.hide_fork THEN [b_pc EXCEPT !.step = "hide"] ELSE NextEntry(b_cmd, b_pc)
    /\ UNCHANGED <<b_cmd, b_start, b_kills, b_to_project, b_err, s_projects>>
    /\ UNCHANGED notBatch

\* wait_for_project_to_be_forked, lines 102-103: the project held is not
\* empty, the wait is over.
WaitReturn ==
    /\ b_cmd.name = "fork" /\ b_pc.step = "wait"
    /\ ~b_to_project.empty_repo
    /\ b_pc' = IF b_cmd.hide_fork THEN [b_pc EXCEPT !.step = "hide"] ELSE NextEntry(b_cmd, b_pc)
    /\ UNCHANGED <<b_cmd, b_start, b_kills, b_to_project, b_err, s_projects>>
    /\ UNCHANGED notBatch

\* Lines 104-105: the project held is empty, it is fetched again.
WaitPoll ==
    /\ b_cmd.name = "fork" /\ b_pc.step = "wait"
    /\ b_to_project.empty_repo
    /\ LET p == get_canonical_project(s_projects, PathRef(b_to_project.path_with_namespace), 0)
       IN  IF p.kind = "raise"
           THEN /\ b_err' = p.ex
                /\ b_pc' = Failed(b_pc)
                /\ b_to_project' = b_to_project
           ELSE /\ b_err' = b_err
                /\ b_pc' = b_pc
                /\ b_to_project' = p.val[1]
    /\ UNCHANGED <<b_cmd, b_start, b_kills, s_projects>>
    /\ UNCHANGED notBatch

\* Lines 101 and 44: the polls are used up while the project is still
\* empty (their number is not counted here: the wait may give up at any
\* poll that finds the project empty); the exception leaves action_fork.
WaitTimedOut ==
    /\ b_cmd.name = "fork" /\ b_pc.step = "wait"
    /\ b_to_project.empty_repo
    /\ b_err' = <<TimedOutEx>>
    /\ b_pc' = Failed(b_pc)
    /\ UNCHANGED <<b_cmd, b_start, b_kills, b_to_project, s_projects>>
    /\ UNCHANGED notBatch

\* action_fork, lines 399-400.
HideFork ==
    /\ b_cmd.name = "fork" /\ b_pc.step = "hide"
    /\ LET r == remove_fork_relationship(s_projects, HandleRef(b_to_project), 0, "none")
       IN  /\ s_projects' = r.projects
           /\ IF r.result.kind = "raise"
              THEN b_err' = r.result.ex /\ b_pc' = Failed(b_pc)
              ELSE b_err' = b_err /\ b_pc' = NextEntry(b_cmd, b_pc)
    /\ UNCHANGED <<b_cmd, b_start, b_kills, b_to_project>>
    /\ UNCHANGED notBatch

\* action_add_member, one row.
AddMemberEntry ==
    /\ b_cmd.name = "add-member" /\ b_pc.step = "entry"
    /\ LET r == add_member_entry(s_projects, b_cmd, Login)
       IN  /\ s_projects' = r.projects
           /\ IF r.result.kind = "raise"
              THEN b_err' = r.result.ex /\ b_pc' = Failed(b_pc)
              ELSE b_err' = b_err /\ b_pc' = NextEntry(b_cmd, b_pc)
    /\ UNCHANGED <<b_cmd, b_start, b_kills, b_to_project>>
    /\ UNCHANGED notBatch

\* action_put_file, lines 679-681: --force-commit with --once, the command
\* returns at once.
PutFileRefused ==
    /\ b_cmd.name = "put-file" /\ b_pc.step = "entry"
    /\ b_cmd.only_once /\ b_cmd.force_commit
    /\ b_pc' = [entry |-> b_pc.entry, step |-> "done"]
    /\ UNCHANGED <<b_cmd, b_start, b_kills, b_to_project, b_err, s_projects>>
    /\ UNCHANGED notBatch

\* action_put_file, one row.
PutFileEntry ==
    /\ b_cmd.name = "put-file" /\ b_pc.step = "entry"
    /\ ~(b_cmd.only_once /\ b_cmd.force_commit)
    /\ LET r == put_file_entry(s_projects, b_cmd, Login)
       IN  /\ s_projects' = r.projects
           /\ IF r.result.kind = "raise"
              THEN b_err' = r.result.ex /\ b_pc' = Failed(b_pc)
              ELSE b_err' = b_err /\ b_pc' = NextEntry(b_cmd, b_pc)
    /\ UNCHANGED <<b_cmd, b_start, b_kills, b_to_project>>
    /\ UNCHANGED notBatch

\* The process is killed, or has failed, and the same command is started
\* again from the top of the roster.
KillAndRerun ==
    /\ b_pc.step # "done"
    /\ Len(b_kills) < MaxKills
    /\ b_kills' = Append(b_kills, b_pc)
    /\ b_pc' = StartPc(b_cmd)
    /\ b_to_project' = NoHandle
    /\ b_err' = <<>>
    /\ UNCHANGED <<b_cmd, b_start, s_projects>>
    /\ UNCHANGED notBatch

\* The server finishes filling a fork.
PopulateFork ==
    /\ \E i \in 1..Len(s_projects) :
         /\ s_projects[i].empty_repo
         /\ s_projects' = [s_projects EXCEPT ![i].empty_repo = FALSE]
    /\ UNCHANGED batchVars
    /\ UNCHANGED notBatch

NextBatch ==
    \/ ForkEntry \/ WaitReturn \/ WaitPoll \/ WaitTimedOut \/ HideFork
    \/ AddMemberEntry \/ PutFileRefused \/ PutFileEntry
    \/ KillAndRerun \/ PopulateFork

(***************************************************************************)
(* The batch commands of teachers_gitlab.py that read from the server:     *)
(* deadline-commit, get-file and clone resolve a commit per roster row     *)
(* with get_commit_before_deadline, commit-stats and get-last-pipeline     *)
(* list what a project holds.  Each row records the calls it makes to the  *)
(* GitLab API, by the name of the python-gitlab method.                    *)
(***************************************************************************)
GatherCommands == {"deadline-commit", "get-file", "clone", "commit-stats", "get-last-pipeline"}
GatherRosters == {<<"alpha", "beta">>, <<"beta", "alpha">>}
GatherDeadline == Format(2, "naive")
PipelineCounts == {0, 1}

\* The commit histories a student's project may have: up to two commits
\* at increasing instants, each before, at or after the deadline.
GatherHistories ==
    LET Commit(id, instant) ==
            [id |-> id, created_at |-> Format(instant, "utc"),
             author_email |-> "student", branch |-> Branch]
    IN  {<<>>}
        \cup {<<Commit(1, t)>> : t \in 1..3}
        \cup {<<Commit(1, t), Commit(2, u)>> : t \in 1..2, u \in 2..3}

InitGather ==
    /\ g_cmd \in GatherCommands
    /\ g_commit \in IF g_cmd = "clone" THEN {None, Some(1), Some(2)} ELSE {None}
    /\ g_roster \in GatherRosters
    /\ g_commits \in [Logins -> GatherHistories]
    /\ \E present \in SUBSET Logins, filed \in SUBSET Logins :
         LET Student(login) ==
                 IF login \in present
                 THEN <<[NewProject(ProjectPath(login), None, FALSE) EXCEPT
                            !.file = IF login \in filed
                                     THEN Some(encode_utf8(LocalFileContent)) ELSE None]>>
                 ELSE <<>>
         IN  /\ filed \subseteq present
             /\ s_projects = <<NewProject(ParentPath, None, FALSE)>>
                                 \o Student("alpha") \o Student("beta")
    /\ g_pc = [entry |-> 1, step |-> "row"]
    /\ g_out = <<>>
    /\ g_err = <<>>
    /\ g_calls = <<>>
    /\ RetryIdle /\ DeadlineIdle /\ ForkIdle /\ BatchIdle /\ PutIdle /\ TwiceIdle /\ WaitIdle /\ GenIdle /\ CanonIdle /\ RosterIdle /\ UnforkIdle

GatherLogin == g_roster[g_pc.entry]

\* The for loop goes on to the next row, or the command ends.
GatherNext(pc) ==
    IF pc.entry = Len(g_roster) THEN [entry |-> pc.entry + 1, step |-> "done"]
    ELSE [entry |-> pc.entry + 1, step |-> "row"]

\* The row's resolution: the project of the row as the server holds it,
\* and get_commit_before_deadline on it.
row_commit(commits, login, tag) ==
    get_commit_before_deadline([commits |-> commits[login], tags |-> <<>>],
                               GatherDeadline, Branch, None, tag)

Report(login, kind, commit) == [login |-> login, kind |-> kind, commit |-> commit]

\* The calls of get_file_contents, lines 181-192: the tree is listed, and
\* the blob is fetched when the tree has the file.
file_contents_calls(current_content) ==
    IF current_content.kind = "return" /\ current_content.val[1] # None
    THEN <<"repository_tree", "repository_blob">>
    ELSE <<"repository_tree">>

\* action_deadline_commits, lines 938-950, for one row: what is printed,
\* or the exception that leaves the command.
deadline_commits_row(projects, commits, login) ==
    LET e == existing_project(projects, login) IN
    IF e.kind = "raise" THEN [out |-> <<>>, err |-> e.ex, calls |-> <<"projects.get">>]
    ELSE IF e.val[1] = None THEN [out |-> <<>>, err |-> None, calls |-> <<"projects.get">>]
    ELSE LET last_commit == row_commit(commits, login, None) IN
         IF last_commit.kind = "raise"
         THEN [out |-> <<>>, err |-> last_commit.ex,
               calls |-> <<"projects.get", "commits.list">>]
         ELSE [out |-> <<Report(login, "line", last_commit.val[1].id)>>, err |-> None,
               calls |-> <<"projects.get", "commits.list">>]

\* The file fetched by a commit that leaves a note on the server.
get_file_row_marking(projects, commits, login) ==
    LET e == existing_project(projects, login) IN
    IF e.kind = "raise" THEN [out |-> <<>>, err |-> e.ex, calls |-> <<"projects.get">>]
    ELSE IF e.val[1] = None THEN [out |-> <<>>, err |-> None, calls |-> <<"projects.get">>]
    ELSE LET last_commit == row_commit(commits, login, None) IN
         IF last_commit.kind = "raise"
         THEN IF isinstance(last_commit.ex[1], "GitlabGetError")
              THEN [out |-> <<Report(login, "no-commit", 0)>>, err |-> None,
                    calls |-> <<"projects.get", "commits.list">>]
              ELSE [out |-> <<>>, err |-> last_commit.ex,
                    calls |-> <<"projects.get", "commits.list">>]
         ELSE LET current_content == get_file_contents(projects, HandleRef(e.val[1][1]))
                  calls == <<"projects.get", "commits.list">>
                               \o file_contents_calls(current_content)
                               \o <<"commits.create">>
              IN
              IF current_content.kind = "raise"
              THEN [out |-> <<>>, err |-> current_content.ex, calls |-> calls]
              ELSE IF current_content.val[1] = None
              THEN [out |-> <<Report(login, "no-file", last_commit.val[1].id)>>, err |-> None,
                    calls |-> calls]
              ELSE [out |-> <<Report(login, "file", last_commit.val[1].id)>>, err |-> None,
                    calls |-> calls]

\* action_get_file, lines 592-623, for one row.
get_file_row(projects, commits, login) ==
    LET e == existing_project(projects, login) IN
    IF e.kind = "raise" THEN [out |-> <<>>, err |-> e.ex, calls |-> <<"projects.get">>]
    ELSE IF e.val[1] = None THEN [out |-> <<>>, err |-> None, calls |-> <<"projects.get">>]
    ELSE LET last_commit == row_commit(commits, login, None) IN
         IF last_commit.kind = "raise"
         THEN IF isinstance(last_commit.ex[1], "GitlabGetError")
              THEN [out |-> <<Report(login, "no-commit", 0)>>, err |-> None,
                    calls |-> <<"projects.get", "commits.list">>]
              ELSE [out |-> <<>>, err |-> last_commit.ex,
                    calls |-> <<"projects.get", "commits.list">>]
         ELSE LET current_content == get_file_contents(projects, HandleRef(e.val[1][1]))
                  calls == <<"projects.get", "commits.list">>
                               \o file_contents_calls(current_content)
              IN
              IF current_content.kind = "raise"
              THEN [out |-> <<>>, err |-> current_content.ex, calls |-> calls]
              ELSE IF current_content.val[1] = None
              THEN [out |-> <<Report(login, "no-file", last_commit.val[1].id)>>, err |-> None,
                    calls |-> calls]
              ELSE [out |-> <<Report(login, "file", last_commit.val[1].id)>>, err |-> None,
                    calls |-> calls]

\* action_clone, lines 847-862, for one row; `commit` is the --commit
\* option, None or Some(id).  The deadline is consulted only without it.
clone_row(projects, commits, login, commit) ==
    LET e == existing_project(projects, login) IN
    IF e.kind = "raise" THEN [out |-> <<>>, err |-> e.ex, calls |-> <<"projects.get">>]
    ELSE IF e.val[1] = None THEN [out |-> <<>>, err |-> None, calls |-> <<"projects.get">>]
    ELSE LET project == get_canonical_project(projects, PathRef(ProjectPath(login)), 0) IN
         IF project.kind = "raise"
         THEN [out |-> <<>>, err |-> project.ex, calls |-> <<"projects.get", "projects.get">>]
         ELSE LET last_commit ==
                      IF commit # None
                      THEN IF commit[1] \in 1..Len(commits[login])
                           THEN Returned(commits_get([commits |-> commits[login]], commit[1]))
                           ELSE Raised(MkEx("GitlabGetError", NOT_FOUND, 0))
                      ELSE row_commit(commits, login, None)
                  calls == <<"projects.get", "projects.get",
                             IF commit # None THEN "commits.get" ELSE "commits.list">>
              IN
              IF last_commit.kind = "raise"
              THEN [out |-> <<>>, err |-> last_commit.ex, calls |-> calls]
              ELSE [out |-> <<Report(login, "clone", last_commit.val[1].id)>>, err |-> None,
                    calls |-> calls]

\* action_commit_stats, lines 972-987, for one row: the commits are listed
\* and each is fetched for its statistics.  (No roster of this part names
\* a project twice.)
commit_stats_row(projects, commits, login) ==
    LET e == existing_project(projects, login) IN
    IF e.kind = "raise" THEN [out |-> <<>>, err |-> e.ex, calls |-> <<"projects.get">>]
    ELSE IF e.val[1] = None THEN [out |-> <<>>, err |-> None, calls |-> <<"projects.get">>]
    ELSE [out |-> <<Report(login, "stats", Len(commits[login]))>>, err |-> None,
          calls |-> <<"projects.get", "commits.list">>
                        \o [i \in 1..Len(commits[login]) |-> "commits.get"]]

\* action_get_last_pipeline, lines 754-780, for one row; `pipelines` is
\* the number of pipelines the server lists for the project.
get_last_pipeline_row(projects, login, pipelines) ==
    LET e == existing_project(projects, login) IN
    IF e.kind = "raise" THEN [out |-> <<>>, err |-> e.ex, calls |-> <<"projects.get">>]
    ELSE IF e.val[1] = None THEN [out |-> <<>>, err |-> None, calls |-> <<"projects.get">>]
    ELSE IF pipelines = 0
    THEN [out |-> <<Report(login, "none", 0)>>, err |-> None,
          calls |-> <<"projects.get", "pipelines.list">>]
    ELSE [out |-> <<Report(login, "pipeline", 0)>>, err |-> None,
          calls |-> <<"projects.get", "pipelines.list", "jobs.list">>]

GatherStep(row) ==
    /\ g_out' = g_out \o row.out
    /\ g_calls' = g_calls \o row.calls
    /\ IF row.err # None
       THEN g_err' = row.err /\ g_pc' = [entry |-> g_pc.entry, step |-> "failed"]
       ELSE g_err' = g_err /\ g_pc' = GatherNext(g_pc)
    /\ UNCHANGED <<g_cmd, g_roster, g_commits, g_commit>>
    /\ UNCHANGED notGather

DeadlineCommitsRow ==
    /\ g_cmd = "deadline-commit" /\ g_pc.step = "row"
    /\ GatherStep(deadline_commits_row(s_projects, g_commits, GatherLogin))

GetFileRow ==
    /\ g_cmd = "get-file" /\ g_pc.step = "row"
    /\ GatherStep(get_file_row(s_projects, g_commits, GatherLogin))

CloneRow ==
    /\ g_cmd = "clone" /\ g_pc.step = "row"
    /\ GatherStep(clone_row(s_projects, g_commits, GatherLogin, g_commit))

CommitStatsRow ==
    /\ g_cmd = "commit-stats" /\ g_pc.step = "row"
    /\ GatherStep(commit_stats_row(s_projects, g_commits, GatherLogin))

GetLastPipelineRow ==
    /\ g_cmd = "get-last-pipeline" /\ g_pc.step = "row"
    /\ \E pipelines \in PipelineCounts :
         GatherStep(get_last_pipeline_row(s_projects, GatherLogin, pipelines))

NextGather ==
    \/ DeadlineCommitsRow \/ GetFileRow \/ CloneRow
    \/ CommitStatsRow \/ GetLastPipelineRow

(***************************************************************************)
(* put_file called directly, on a network that can fail: each invocation   *)
(* of the decorated function meets the fault its number selects in the     *)
(* script (the last entry standing for every later invocation).            *)
(***************************************************************************)
MaxPutCalls == 1
PutFaults == {"none", "offline", "lost", "refused"}
PutScripts == {<<a>> : a \in PutFaults} \cup {<<a, b>> : a, b \in PutFaults}
PutContents == {LocalFileContent, "other"}

\* The update issued whatever `overwrite` says.
put_file_updates_always(overwrite) == TRUE

\* Line 167: `if overwrite`.
put_file_updates(overwrite) == overwrite

\* The create request of line 164 under a fault: "offline" the request
\* does not reach the server, "lost" the server's answer does not reach
\* the client, "refused" the server refuses with another status than 400.
commits_create_under(projects, id, content, fault) ==
    CASE fault = "offline" ->
            [resp |-> Raised(MkEx("ConnectionError", 0, 0)), projects |-> projects]
      [] fault = "lost" ->
            [resp |-> Raised(MkEx("ReadTimeout", 0, 0)),
             projects |-> commits_create(projects, id, "create", content).projects]
      [] fault = "refused" ->
            [resp |-> Raised(MkEx("GitlabCreateError", NOT_FOUND, 0)), projects |-> projects]
      [] OTHER -> commits_create(projects, id, "create", content)

\* put_file, lines 151-173, one invocation numbered n:
\* [result, projects, actions], the actions being the commit requests sent.
\* (A set of one element binds the value of a call to a name.)
put_file_attempt(projects, project, file_contents, overwrite, fault, n) ==
    CHOOSE out \in
      {IF p.kind = "raise" THEN [result |-> p, projects |-> projects, actions |-> <<>>]
       ELSE CHOOSE done \in
         {IF created.resp.kind = "return"
          THEN [result |-> Returned(Some("commit")), projects |-> created.projects,
                actions |-> <<[invocation |-> n, action |-> "create"]>>]
          ELSE IF ~(isinstance(created.resp.ex[1], "GitlabCreateError")
                    /\ created.resp.ex[1].code = BAD_REQUEST)
          THEN [result |-> created.resp, projects |-> created.projects,
                actions |-> <<[invocation |-> n, action |-> "create"]>>]
          ELSE IF ~put_file_updates(overwrite)
          THEN [result |-> Returned(None), projects |-> created.projects,
                actions |-> <<[invocation |-> n, action |-> "create"]>>]
          ELSE CHOOSE again \in
            {[result |-> IF updated.resp.kind = "return" THEN Returned(Some("commit"))
                         ELSE updated.resp,
              projects |-> updated.projects,
              actions |-> <<[invocation |-> n, action |-> "create"],
                            [invocation |-> n, action |-> "update"]>>] :
                updated \in {commits_create(created.projects, p.val[1].id, "update",
                                            file_contents)}} : TRUE :
            created \in {commits_create_under(projects, p.val[1].id, file_contents, fault)}}
         : TRUE :
          p \in {get_canonical_project(projects, project, 0)}} : TRUE

\* The decorated put_file: the wrapper's loop (lines 60-73) around the
\* invocations, the server changing under them.
RECURSIVE put_file_loop(_, _, _, _, _, _, _)
put_file_loop(gen, last_ex, st, project, file_contents, overwrite, script) ==
    IF ~retries_yields(gen)
    THEN [result |-> Raised(TimedOutEx), projects |-> st.projects, actions |-> st.actions]
    ELSE CHOOSE out \in
      {IF a.result.kind = "return" \/ wrapper_reraises(last_ex, a.result.ex[1], RetryExceptions)
       THEN [result |-> a.result, projects |-> a.projects,
             actions |-> st.actions \o a.actions]
       ELSE put_file_loop(g, wrapper_last_ex(last_ex, a.result.ex[1], RetryExceptions),
                          [projects |-> a.projects, actions |-> st.actions \o a.actions],
                          project, file_contents, overwrite, script) :
          g \in {retries_next(gen)},
          a \in {put_file_attempt(st.projects, project, file_contents, overwrite,
                     script[IF retries_next(gen).n <= Len(script)
                            THEN retries_next(gen).n ELSE Len(script)],
                     retries_next(gen).n)}} : TRUE

put_file_under(projects, project, file_contents, overwrite, script) ==
    put_file_loop(retries_enter(Some(RetryAttempts), DefaultInterval, None), None,
                  [projects |-> projects, actions |-> <<>>],
                  project, file_contents, overwrite, script)

\* The student's project, with or without the file.
InitPut ==
    /\ \E f \in {None, Some(encode_utf8("old")), Some(encode_utf8(LocalFileContent))} :
         s_projects = <<NewProject(ParentPath, None, FALSE),
                        [NewProject(ProjectPath("alpha"), None, FALSE) EXCEPT !.file = f]>>
    /\ p_log = <<>>
    /\ RetryIdle /\ DeadlineIdle /\ ForkIdle /\ BatchIdle /\ GatherIdle /\ TwiceIdle /\ WaitIdle /\ GenIdle /\ CanonIdle /\ RosterIdle /\ UnforkIdle

PutCall ==
    /\ Len(p_log) < MaxPutCalls
    /\ \E project \in {PathRef(ProjectPath("alpha")), HandleRef(Handle(s_projects, 2))},
          file_contents \in PutContents, overwrite \in BOOLEAN, script \in PutScripts :
         \E call \in {put_file_under(s_projects, project, file_contents, overwrite, script)} :
         /\ s_projects' = call.projects
         /\ p_log' = Append(p_log,
                [file_contents |-> file_contents, overwrite |-> overwrite, script |-> script,
                 result |-> call.result, actions |-> call.actions,
                 before |-> s_projects[2].file, after |-> call.projects[2].file])
    /\ UNCHANGED notPut

NextPut == PutCall

(***************************************************************************)
(* The put-file command run to its end, and run again.                     *)
(***************************************************************************)
MaxPutRuns == 2

PutFileCommands ==
    [name : {"put-file"}, hide_fork : {FALSE}, dry_run : BOOLEAN,
     force_commit : BOOLEAN, only_once : BOOLEAN]

RowReport(login, report, actions) == [login |-> login, report |-> report, actions |-> actions]

\* action_put_file, lines 684-728, for one row: the message logged, the
\* commit requests sent, the exception that leaves the command if any, and
\* the server afterwards.
put_file_row(projects, cmd, login) ==
    CHOOSE out \in
      {IF e.kind = "raise" THEN [rows |-> <<>>, err |-> e.ex, projects |-> projects]
       ELSE IF e.val[1] = None
       THEN [rows |-> <<RowReport(login, "not-found", <<>>)>>, err |-> None,
             projects |-> projects]
       ELSE CHOOSE found \in
         {IF current.kind = "raise"
          THEN [rows |-> <<>>, err |-> current.ex, projects |-> projects]
          ELSE
          LET already_exists == ~cmd.force_commit /\ current.val[1] # None
              commit_needed ==
                  IF cmd.force_commit THEN TRUE
                  ELSE IF already_exists
                       THEN current.val[1][1] # encode_utf8(LocalFileContent)
                       ELSE TRUE
              report == IF ~commit_needed THEN "no-change"
                        ELSE IF already_exists /\ cmd.only_once THEN "not-overwriting"
                        ELSE "uploading"
          IN  IF commit_needed /\ ~cmd.dry_run
              THEN CHOOSE sent \in
                     {[rows |-> <<RowReport(login, report, put.actions)>>,
                       err |-> IF put.result.kind = "raise" THEN put.result.ex ELSE None,
                       projects |-> put.projects] :
                        put \in {put_file_under(projects, HandleRef(e.val[1][1]),
                                     LocalFileContent, ~cmd.only_once, <<"none">>)}} : TRUE
              ELSE [rows |-> <<RowReport(login, report, <<>>)>>, err |-> None,
                    projects |-> projects] :
            current \in {IF cmd.force_commit THEN Returned(None)
                         ELSE get_file_contents(projects, HandleRef(e.val[1][1]))}} : TRUE :
          e \in {existing_project(projects, login)}} : TRUE

\* The for loop of line 683 from row k on.
RECURSIVE put_file_rows(_, _, _, _)
put_file_rows(projects, cmd, k, rows) ==
    IF k > Len(Roster) THEN [rows |-> rows, err |-> None, projects |-> projects]
    ELSE CHOOSE run \in
            {IF r.err # None
             THEN [rows |-> rows \o r.rows, err |-> r.err, projects |-> r.projects]
             ELSE put_file_rows(r.projects, cmd, k + 1, rows \o r.rows) :
                r \in {put_file_row(projects, cmd, Roster[k])}} : TRUE

\* The roster gone through whatever the switches.
action_put_file_unrefused(projects, cmd) ==
    put_file_rows(projects, cmd, 1, <<>>)

\* action_put_file, lines 679-728.
action_put_file(projects, cmd) ==
    IF cmd.only_once /\ cmd.force_commit
    THEN [rows |-> <<>>, err |-> None, projects |-> projects]
    ELSE put_file_rows(projects, cmd, 1, <<>>)

InitTwice ==
    /\ t_cmd \in PutFileCommands
    /\ \E a \in {None, Some(encode_utf8("old")), Some(encode_utf8(LocalFileContent))},
          b \in {<<>>, <<None>>, <<Some(encode_utf8("old"))>>} :
         s_projects = <<NewProject(ParentPath, None, FALSE),
                        [NewProject(ProjectPath("alpha"), None, FALSE) EXCEPT !.file = a]>>
                      \o (IF b = <<>> THEN <<>>
                          ELSE <<[NewProject(ProjectPath("beta"), None, FALSE)
                                     EXCEPT !.file = b[1]]>>)
    /\ t_runs = <<>>
    /\ RetryIdle /\ DeadlineIdle /\ ForkIdle /\ BatchIdle /\ GatherIdle /\ PutIdle /\ WaitIdle /\ GenIdle /\ CanonIdle /\ RosterIdle /\ UnforkIdle

\* One run of the command, from its first line to its last.
PutFileRun ==
    /\ Len(t_runs) < MaxPutRuns
    /\ \E run \in {action_put_file(s_projects, t_cmd)} :
         /\ s_projects' = run.projects
         /\ t_runs' = Append(t_runs, [rows |-> run.rows, err |-> run.err, before |-> s_projects])
    /\ UNCHANGED t_cmd
    /\ UNCHANGED notTwice

NextTwice == PutFileRun

(***************************************************************************)
(* wait_for_project_to_be_forked, utils.py lines 92-105, against a server  *)
(* that fills the fork at some time or never.                              *)
(***************************************************************************)
WaitAttempts == 120
WaitInterval == 5
WaitTimeouts == {None, Some(10), Some(12)}
ForkId == 2

\* The held project kept instead of being fetched again.
wait_refresh_cached(projects, project) ==
    get_canonical_project(projects, HandleRef(project), 0)

\* Line 105: the forced refresh, by the project's path.
wait_refresh(projects, project) ==
    get_canonical_project(projects, PathRef(project.path_with_namespace), 0)

\* The fork on the server, empty or filled, and the caller's reference to
\* it: its path, or a Project object fetched when the fork was made.
InitWait ==
    /\ \E now \in BOOLEAN, made \in BOOLEAN, timeout \in WaitTimeouts :
         /\ s_projects = <<NewProject(ParentPath, None, FALSE),
                           NewProject(ProjectPath("alpha"), Some(1), now)>>
         /\ w_args \in {[project_path |-> ref, timeout |-> timeout] :
                ref \in {PathRef(ProjectPath("alpha")),
                         HandleRef([Handle(s_projects, ForkId) EXCEPT !.empty_repo = made])}}
         /\ made \/ ~now
    /\ w_pc = "enter"
    /\ w_gen = <<>>
    /\ w_project = NoHandle
    /\ w_truth = FALSE
    /\ w_fetches = 0
    /\ w_slept = 0
    /\ w_outcome = <<>>
    /\ RetryIdle /\ DeadlineIdle /\ ForkIdle /\ BatchIdle /\ GatherIdle /\ PutIdle /\ TwiceIdle /\ GenIdle /\ CanonIdle /\ RosterIdle /\ UnforkIdle

\* Lines 97 and 101: the project is resolved and the generator made.
WaitEnter ==
    /\ w_pc = "enter"
    /\ \E p \in {get_canonical_project(s_projects, w_args.project_path, 0)} :
         IF p.kind = "raise"
         THEN /\ w_outcome' = <<p>>
              /\ w_pc' = "done"
              /\ UNCHANGED <<w_project, w_truth, w_gen>>
         ELSE /\ w_project' = p.val[1]
              /\ w_truth' = s_projects[ForkId].empty_repo
              /\ w_gen' = retries_enter(Some(WaitAttempts), WaitInterval, w_args.timeout)
              /\ w_pc' = "for"
              /\ UNCHANGED w_outcome
    /\ w_fetches' = IF w_args.project_path.kind = "handle" THEN 0 ELSE 1
    /\ UNCHANGED <<w_args, w_slept, s_projects>>
    /\ UNCHANGED notWait

\* Line 101: the for statement resumes the generator, which sleeps if it
\* has yielded before and yields the next attempt.
WaitYield ==
    /\ w_pc = "for"
    /\ retries_yields(w_gen)
    /\ w_slept' = w_slept + retries_sleep(w_gen)
    /\ w_gen' = retries_next(w_gen)
    /\ w_pc' = "check"
    /\ UNCHANGED <<w_args, w_project, w_truth, w_fetches, w_outcome, s_projects>>
    /\ UNCHANGED notWait

\* Lines 39-44: the budget is used up, the generator raises.
WaitTimesOut ==
    /\ w_pc = "for"
    /\ ~retries_yields(w_gen)
    /\ w_slept' = w_slept + retries_sleep(w_gen)
    /\ w_outcome' = <<Raised(TimedOutEx)>>
    /\ w_pc' = "done"
    /\ UNCHANGED <<w_args, w_gen, w_project, w_truth, w_fetches, s_projects>>
    /\ UNCHANGED notWait

\* Lines 102-103: the project held is not empty.
WaitObserved ==
    /\ w_pc = "check"
    /\ ~w_project.empty_repo
    /\ w_outcome' = <<Returned(None)>>
    /\ w_pc' = "done"
    /\ UNCHANGED <<w_args, w_gen, w_project, w_truth, w_fetches, w_slept, s_projects>>
    /\ UNCHANGED notWait

\* Lines 102-105: the project held is empty, it is fetched again.
WaitRefresh ==
    /\ w_pc = "check"
    /\ w_project.empty_repo
    /\ \E p \in {wait_refresh(s_projects, w_project)} :
         IF p.kind = "raise"
         THEN /\ w_outcome' = <<p>>
              /\ w_pc' = "done"
              /\ UNCHANGED <<w_project, w_truth>>
         ELSE /\ w_project' = p.val[1]
              /\ w_truth' = s_projects[ForkId].empty_repo
              /\ w_pc' = "for"
              /\ UNCHANGED w_outcome
    /\ w_fetches' = w_fetches + 1
    /\ UNCHANGED <<w_args, w_gen, w_slept, s_projects>>
    /\ UNCHANGED notWait

\* The server finishes filling the fork.
WaitPopulated ==
    /\ w_pc # "done"
    /\ s_projects[ForkId].empty_repo
    /\ s_projects' = [s_projects EXCEPT ![ForkId].empty_repo = FALSE]
    /\ UNCHANGED waitVars
    /\ UNCHANGED notWait

NextWait ==
    WaitEnter \/ WaitYield \/ WaitTimesOut \/ WaitObserved \/ WaitRefresh \/ WaitPopulated

(***************************************************************************)
(* A for loop over retries(n, interval, timeout), utils.py lines 21-44,    *)
(* for any arguments; the loop body is the operation the loop guards.      *)
(***************************************************************************)
MaxBudget == 4
GenIntervals == {1, DefaultInterval}

\* Line 33: Exception("Specify either n or timeout for retries").
ConfigErrorEx == [cls |-> "ConfigError", code |-> 0, at |-> 0, context |-> <<>>]

\* The generator as the for statement finds it: made by the call on its
\* first resumption (a generator's code runs from then on), kept after.
GenNow == IF q_pc = "made" THEN retries_enter(q_args.n, q_args.interval, q_args.timeout)
          ELSE q_gen

InitGen ==
    /\ q_args \in [n : {None} \cup {Some(k) : k \in 1..MaxBudget},
                   interval : GenIntervals,
                   timeout : {None} \cup {Some(k) : k \in 1..MaxBudget}]
    /\ q_pc = "made"
    /\ q_gen = <<>>
    /\ q_runs = 0
    /\ q_outcome = <<>>
    /\ RetryIdle /\ DeadlineIdle /\ ServerIdle /\ ForkIdle /\ BatchIdle /\ GatherIdle /\ PutIdle /\ TwiceIdle /\ WaitIdle /\ CanonIdle /\ RosterIdle /\ UnforkIdle

\* Lines 32-33: neither n nor timeout, the first resumption raises.
GenConfigError ==
    /\ q_pc = "made"
    /\ GenNow.raised
    /\ q_gen' = GenNow
    /\ q_outcome' = <<Raised(ConfigErrorEx)>>
    /\ q_pc' = "done"
    /\ UNCHANGED <<q_args, q_runs>>
    /\ UNCHANGED notGen

\* Lines 39-42: an attempt is yielded and the loop body entered.
GenYield ==
    /\ q_pc \in {"made", "yielded"}
    /\ ~GenNow.raised
    /\ retries_yields(GenNow)
    /\ q_gen' = retries_next(GenNow)
    /\ q_pc' = "body"
    /\ UNCHANGED <<q_args, q_runs, q_outcome>>
    /\ UNCHANGED notGen

\* Lines 39 and 44: the budget is used up, the time-out is raised.
GenExhausted ==
    /\ q_pc \in {"made", "yielded"}
    /\ ~GenNow.raised
    /\ ~retries_yields(GenNow)
    /\ q_gen' = GenNow
    /\ q_outcome' = <<Raised(TimedOutEx)>>
    /\ q_pc' = "done"
    /\ UNCHANGED <<q_args, q_runs>>
    /\ UNCHANGED notGen

\* The loop body runs the guarded operation, which fails: the loop goes on.
GenBodyFails ==
    /\ q_pc = "body"
    /\ q_runs' = q_runs + 1
    /\ q_pc' = "yielded"
    /\ UNCHANGED <<q_args, q_gen, q_outcome>>
    /\ UNCHANGED notGen

\* The loop body runs the guarded operation, which succeeds: the loop is left.
GenBodyReturns ==
    /\ q_pc = "body"
    /\ q_runs' = q_runs + 1
    /\ q_outcome' = <<Returned(None)>>
    /\ q_pc' = "done"
    /\ UNCHANGED <<q_args, q_gen>>
    /\ UNCHANGED notGen

NextGen == GenConfigError \/ GenYield \/ GenExhausted \/ GenBodyFails \/ GenBodyReturns

(***************************************************************************)
(* get_canonical_project called directly, with every kind of argument,     *)
(* while the server fills the fork.                                        *)
(***************************************************************************)
MaxCanonCalls == 2

\* How many times the wrapper invokes the wrapped function (lines 61-72).
RECURSIVE wrapper_invocations(_, _, _)
wrapper_invocations(gen, last_ex, outcomes) ==
    IF ~retries_yields(gen) THEN gen.n
    ELSE CHOOSE count \in
      {IF o.kind = "return" \/ wrapper_reraises(last_ex, o.ex[1], RetryExceptions)
       THEN retries_next(gen).n
       ELSE wrapper_invocations(retries_next(gen),
                wrapper_last_ex(last_ex, o.ex[1], RetryExceptions), outcomes) :
          o \in {outcomes[IF retries_next(gen).n <= Len(outcomes)
                          THEN retries_next(gen).n ELSE Len(outcomes)]}} : TRUE

\* How many times a call of get_canonical_project runs lines 85-89.
canonical_project_invocations(projects, project, faults) ==
    wrapper_invocations(retries_enter(Some(RetryAttempts), DefaultInterval, None), None,
        IF project.kind \in {"id", "path"}
        THEN AfterFaults(faults, canonical_project_body(projects, project))
        ELSE <<canonical_project_body(projects, project)>>)

\* The projects.get requests a call of get_canonical_project sends: one
\* per invocation for an id or a path (line 86), none otherwise.
canonical_project_requests(projects, project, faults) ==
    IF project.kind \in {"id", "path"}
    THEN canonical_project_invocations(projects, project, faults)
    ELSE 0

\* The parent and alpha's fork of it, still empty or filled.
InitCanon ==
    /\ \E empty \in BOOLEAN :
         s_projects = <<NewProject(ParentPath, None, FALSE),
                        NewProject(ProjectPath("alpha"), Some(1), empty)>>
    /\ c_log = <<>>
    /\ RetryIdle /\ DeadlineIdle /\ ForkIdle /\ BatchIdle /\ GatherIdle /\ PutIdle /\ TwiceIdle /\ WaitIdle /\ GenIdle /\ RosterIdle /\ UnforkIdle

CanonLog(project, faults, again, projects) ==
    [project |-> project, faults |-> faults, again |-> again,
     result |-> get_canonical_project(projects, project, faults),
     requests |-> canonical_project_requests(projects, project, faults),
     invocations |-> canonical_project_invocations(projects, project, faults),
     before |-> projects]

\* A call with an id, a path, a Project object or something else.
CanonCall ==
    /\ Len(c_log) < MaxCanonCalls
    /\ \E project \in {IdRef(i) : i \in 1..3}
                       \cup {PathRef(ParentPath), PathRef(ProjectPath("alpha")),
                             PathRef(ProjectPath("beta")), OtherRef},
          faults \in FaultCounts :
         c_log' = Append(c_log, CanonLog(project, faults, 0, s_projects))
    /\ UNCHANGED s_projects
    /\ UNCHANGED notCanon

\* A call with the Project object an earlier call returned.
CanonAgain ==
    /\ Len(c_log) < MaxCanonCalls
    /\ \E k \in 1..Len(c_log), faults \in FaultCounts :
         /\ c_log[k].result.kind = "return"
         /\ c_log' = Append(c_log,
                CanonLog(HandleRef(c_log[k].result.val[1]), faults, k, s_projects))
    /\ UNCHANGED s_projects
    /\ UNCHANGED notCanon

\* The server finishes filling the fork.
CanonPopulated ==
    /\ \E i \in 1..Len(s_projects) :
         /\ s_projects[i].empty_repo
         /\ s_projects' = [s_projects EXCEPT ![i].empty_repo = FALSE]
    /\ UNCHANGED c_log
    /\ UNCHANGED notCanon

NextCanon == CanonCall \/ CanonAgain \/ CanonPopulated

(***************************************************************************)
(* The add-member, protect and unprotect commands of teachers_gitlab.py    *)
(* over a roster whose projects may be missing or named twice, on a        *)
(* network that can fail.  Of each project's branches the server state     *)
(* keeps the one the command names: [exists, protection], the protection   *)
(* <<>> or <<rules>>.                                                      *)
(***************************************************************************)
Rosters == {<<"alpha", "beta">>, <<"beta", "alpha">>, <<"alpha", "alpha", "beta">>}
AccessLevelNames == {"devel", "reporter", "owner"}
RefName == "feature"
LookupFaults == {0, 1}

RosterCommands ==
    [name : {"add-member"}, access_level : AccessLevelNames, dry_run : BOOLEAN,
     developers_can_push : {FALSE}, developers_can_merge : {FALSE}]
    \cup [name : {"protect"}, access_level : {""}, dry_run : {FALSE},
          developers_can_push : BOOLEAN, developers_can_merge : {FALSE}]
    \cup [name : {"unprotect"}, access_level : {""}, dry_run : {FALSE},
          developers_can_push : {FALSE}, developers_can_merge : {FALSE}]

\* An unknown name taken for the developer level.
access_level_of_defaulting(access_level) ==
    IF access_level = "reporter" THEN Returned("REPORTER_ACCESS")
    ELSE Returned("DEVELOPER_ACCESS")

\* action_add_member, lines 505-510.
access_level_of(access_level) ==
    IF access_level = "devel" THEN Returned("DEVELOPER_ACCESS")
    ELSE IF access_level = "reporter" THEN Returned("REPORTER_ACCESS")
    ELSE Raised(MkEx("Exception", 0, 0))

\* project.members.create on a network that can fail: "refused" is a
\* rejection that is no conflict, "offline" a failed connection.
members_create_under(projects, id, user_id, access_level, fault) ==
    IF fault = "refused"
    THEN [resp |-> Raised(MkEx("GitlabCreateError", NOT_FOUND, 0)), projects |-> projects]
    ELSE IF fault = "offline"
    THEN [resp |-> Raised(MkEx("ConnectionError", 0, 0)), projects |-> projects]
    ELSE members_create(projects, id, user_id, access_level)

\* project.branches.get(branch_name): GET /projects/:id/repository/branches/:branch
branches_get(branches, id) ==
    IF branches[id].exists
    THEN Returned([name |-> RefName, protected |-> branches[id].protection # None])
    ELSE Raised(MkEx("GitlabGetError", NOT_FOUND, 0))

\* branch.protect(developers_can_push, developers_can_merge):
\* PUT /projects/:id/repository/branches/:branch/protect
branch_protect(branches, id, developers_can_push, developers_can_merge) ==
    [branches EXCEPT ![id].protection =
        Some([developers_can_push |-> developers_can_push,
              developers_can_merge |-> developers_can_merge])]

\* branch.unprotect(): PUT /projects/:id/repository/branches/:branch/unprotect
branch_unprotect(branches, id) == [branches EXCEPT ![id].protection = None]

\* Rows met before never skipped.
existing_row_repeating(projects, login, seen, allow_duplicates, faults) ==
    CHOOSE out \in
      {IF p.kind = "return"
       THEN [kind |-> "yield", project |-> p.val[1], ex |-> None,
             seen |-> seen \cup {ProjectPath(login)}]
       ELSE IF isinstance(p.ex[1], "GitlabGetError")
       THEN [kind |-> "missing", project |-> NoHandle, ex |-> None,
             seen |-> seen \cup {ProjectPath(login)}]
       ELSE [kind |-> "raise", project |-> NoHandle, ex |-> p.ex,
             seen |-> seen \cup {ProjectPath(login)}] :
          p \in {get_canonical_project(projects, PathRef(ProjectPath(login)), faults)}} : TRUE

\* as_existing_gitlab_projects, lines 306-320, for one row of the roster:
\* the row is passed over as a duplicate, yields its project, is skipped
\* with a warning, or the lookup's exception leaves the generator.
existing_row(projects, login, seen, allow_duplicates, faults) ==
    IF ~allow_duplicates /\ ProjectPath(login) \in seen
    THEN [kind |-> "duplicate", project |-> NoHandle, ex |-> None, seen |-> seen]
    ELSE CHOOSE out \in
      {IF p.kind = "return"
       THEN [kind |-> "yield", project |-> p.val[1], ex |-> None,
             seen |-> seen \cup {ProjectPath(login)}]
       ELSE IF isinstance(p.ex[1], "GitlabGetError")
       THEN [kind |-> "missing", project |-> NoHandle, ex |-> None,
             seen |-> seen \cup {ProjectPath(login)}]
       ELSE [kind |-> "raise", project |-> NoHandle, ex |-> p.ex,
             seen |-> seen \cup {ProjectPath(login)}] :
          p \in {get_canonical_project(projects, PathRef(ProjectPath(login)), faults)}} : TRUE

\* What a row that yields no project leaves behind.
RowWithout(g, projects, branches) ==
    [row |-> g.kind, project |-> 0, requests |-> <<>>,
     log |-> IF g.kind = "missing" THEN <<"warning">> ELSE <<>>,
     result |-> IF g.kind = "raise" THEN Raised(g.ex[1]) ELSE Returned(None),
     projects |-> projects, branches |-> branches, seen |-> g.seen]

\* The except clause naming the wrong class.
add_member_catches_get_error(exp) == isinstance(exp, "GitlabGetError")

\* action_add_member, line 525: except gitlab.GitlabCreateError.
add_member_catches(exp) == isinstance(exp, "GitlabCreateError")

\* action_add_member, lines 512-535, for one row.
add_member_row(projects, branches, cmd, login, seen, faults, fault) ==
    CHOOSE out \in
      {IF g.kind # "yield" THEN RowWithout(g, projects, branches)
       ELSE IF cmd.dry_run
       THEN [row |-> "yield", project |-> g.project.id, requests |-> <<>>, log |-> <<"info">>,
             result |-> Returned(None),
             projects |-> projects, branches |-> branches, seen |-> g.seen]
       ELSE CHOOSE row \in
         {[row |-> "yield", project |-> g.project.id,
           requests |-> <<[call |-> "members.create", user_id |-> login,
                           access_level |-> access_level_of(cmd.access_level).val[1]]>>,
           log |-> IF m.resp.kind = "raise"
                      /\ add_member_catches(m.resp.ex[1])
                      /\ m.resp.ex[1].code # CONFLICT
                   THEN <<"info", "error">> ELSE <<"info">>,
           result |-> IF m.resp.kind = "raise" /\ ~add_member_catches(m.resp.ex[1])
                      THEN m.resp ELSE Returned(None),
           projects |-> m.projects, branches |-> branches, seen |-> g.seen] :
            m \in {members_create_under(projects, g.project.id, login,
                       access_level_of(cmd.access_level).val[1], fault)}} : TRUE :
          g \in {existing_row(projects, login, seen, TRUE, faults)}} : TRUE

\* action_set_branch_protection, lines 437-447, for one row.
protect_row(projects, branches, cmd, login, seen, faults) ==
    CHOOSE out \in
      {IF g.kind # "yield" THEN RowWithout(g, projects, branches)
       ELSE IF branches_get(branches, g.project.id).kind = "raise"
       THEN [row |-> "yield", project |-> g.project.id,
             requests |-> <<[call |-> "branches.get", branch |-> RefName]>>, log |-> <<>>,
             result |-> branches_get(branches, g.project.id),
             projects |-> projects, branches |-> branches, seen |-> g.seen]
       ELSE [row |-> "yield", project |-> g.project.id,
             requests |-> <<[call |-> "branches.get", branch |-> RefName],
                            [call |-> "branch.protect", branch |-> RefName,
                             developers_can_push |-> cmd.developers_can_push,
                             developers_can_merge |-> cmd.developers_can_merge]>>,
             log |-> <<"info">>,
             result |-> Returned(None),
             projects |-> projects,
             branches |-> branch_protect(branches, g.project.id,
                              cmd.developers_can_push, cmd.developers_can_merge),
             seen |-> g.seen] :
          g \in {existing_row(projects, login, seen, FALSE, faults)}} : TRUE

\* action_unprotect_branch, lines 472-479, for one row.
unprotect_row(projects, branches, login, seen, faults) ==
    CHOOSE out \in
      {IF g.kind # "yield" THEN RowWithout(g, projects, branches)
       ELSE IF branches_get(branches, g.project.id).kind = "raise"
       THEN [row |-> "yield", project |-> g.project.id,
             requests |-> <<[call |-> "branches.get", branch |-> RefName]>>, log |-> <<>>,
             result |-> branches_get(branches, g.project.id),
             projects |-> projects, branches |-> branches, seen |-> g.seen]
       ELSE [row |-> "yield", project |-> g.project.id,
             requests |-> <<[call |-> "branches.get", branch |-> RefName],
                            [call |-> "branch.unprotect", branch |-> RefName]>>,
             log |-> <<"info">>,
             result |-> Returned(None),
             projects |-> projects,
             branches |-> branch_unprotect(branches, g.project.id),
             seen |-> g.seen] :
          g \in {existing_row(projects, login, seen, FALSE, faults)}} : TRUE

\* The server at the start: for each student either no project or one,
\* with or without the membership, the branch absent, plain or protected.
InitRoster ==
    /\ o_cmd \in RosterCommands
    /\ o_roster \in Rosters
    /\ \E a, b \in {None} \cup
            {Some([member |-> m, branch |-> br]) :
                m \in BOOLEAN,
                br \in {[exists |-> FALSE, protection |-> None],
                        [exists |-> TRUE, protection |-> None],
                        [exists |-> TRUE,
                         protection |-> Some([developers_can_push |-> FALSE,
                                              developers_can_merge |-> FALSE])]}} :
         LET Student(login, x) ==
                 IF x = None THEN <<>>
                 ELSE <<[NewProject(ProjectPath(login), None, FALSE)
                            EXCEPT !.members = IF x[1].member
                                               THEN {[user_id |-> login,
                                                      access_level |-> "REPORTER_ACCESS"]}
                                               ELSE {}]>>
             BranchOf(x) == IF x = None THEN <<>> ELSE <<x[1].branch>>
         IN  /\ s_projects = Student("alpha", a) \o Student("beta", b)
             /\ o_branches = BranchOf(a) \o BranchOf(b)
    /\ o_pc = [entry |-> 1, step |-> IF o_cmd.name = "add-member" THEN "check" ELSE "row"]
    /\ o_seen = {}
    /\ o_log = <<>>
    /\ o_err = <<>>
    /\ RetryIdle /\ DeadlineIdle /\ ForkIdle /\ BatchIdle /\ GatherIdle /\ PutIdle /\ TwiceIdle /\ WaitIdle /\ GenIdle /\ CanonIdle /\ UnforkIdle

\* action_add_member, lines 505-510: the access level is looked up before
\* the loop over the roster starts.
AddMemberCheck ==
    /\ o_pc.step = "check"
    /\ IF access_level_of(o_cmd.access_level).kind = "raise"
       THEN /\ o_err' = access_level_of(o_cmd.access_level).ex
            /\ o_pc' = [o_pc EXCEPT !.step = "failed"]
       ELSE /\ o_err' = o_err
            /\ o_pc' = [o_pc EXCEPT !.step = "row"]
    /\ UNCHANGED <<o_cmd, o_roster, o_branches, o_seen, o_log, s_projects>>
    /\ UNCHANGED notRoster

\* The end of one pass of the command's for loop: the row is recorded and
\* the loop goes on to the next row, ends, or is left by the exception.
RosterRowEnds(faults, fault, out) ==
    /\ s_projects' = out.projects
    /\ o_branches' = out.branches
    /\ o_seen' = out.seen
    /\ o_log' = Append(o_log,
          [login |-> o_roster[o_pc.entry], faults |-> faults, fault |-> fault,
           row |-> out.row, project |-> out.project, requests |-> out.requests,
           log |-> out.log, result |-> out.result,
           before |-> [projects |-> s_projects, branches |-> o_branches]])
    /\ IF out.result.kind = "raise"
       THEN /\ o_err' = out.result.ex
            /\ o_pc' = [o_pc EXCEPT !.step = "failed"]
       ELSE /\ o_err' = o_err
            /\ o_pc' = [entry |-> o_pc.entry + 1,
                        step |-> IF o_pc.entry = Len(o_roster) THEN "done" ELSE "row"]
    /\ UNCHANGED <<o_cmd, o_roster>>
    /\ UNCHANGED notRoster

AddMemberRow ==
    /\ o_cmd.name = "add-member" /\ o_pc.step = "row"
    /\ \E faults \in LookupFaults, fault \in CreateFaults :
         \E out \in {add_member_row(s_projects, o_branches, o_cmd, o_roster[o_pc.entry],
                                    o_seen, faults, fault)} :
            RosterRowEnds(faults, fault, out)

ProtectRow ==
    /\ o_cmd.name = "protect" /\ o_pc.step = "row"
    /\ \E faults \in LookupFaults :
         \E out \in {protect_row(s_projects, o_branches, o_cmd, o_roster[o_pc.entry],
                                 o_seen, faults)} :
            RosterRowEnds(faults, "none", out)

UnprotectRow ==
    /\ o_cmd.name = "unprotect" /\ o_pc.step = "row"
    /\ \E faults \in LookupFaults :
         \E out \in {unprotect_row(s_projects, o_branches, o_roster[o_pc.entry],
                                   o_seen, faults)} :
            RosterRowEnds(faults, "none", out)

NextRoster == AddMemberCheck \/ AddMemberRow \/ ProtectRow \/ UnprotectRow

(***************************************************************************)
(* remove_fork_relationship called directly, on a network that can fail.   *)
(***************************************************************************)
MaxUnforkCalls == 2

\* The parent, alpha's fork of it, and beta's project, which is no fork.
InitUnfork ==
    /\ s_projects = <<NewProject(ParentPath, None, FALSE),
                      NewProject(ProjectPath("alpha"), Some(1), FALSE),
                      NewProject(ProjectPath("beta"), None, FALSE)>>
    /\ u_log = <<>>
    /\ RetryIdle /\ DeadlineIdle /\ ForkIdle /\ BatchIdle /\ GatherIdle /\ PutIdle /\ TwiceIdle /\ WaitIdle /\ GenIdle /\ CanonIdle /\ RosterIdle

\* A call with a path, an id or a Project object.
Unfork ==
    /\ Len(u_log) < MaxUnforkCalls
    /\ \E project \in {PathRef(ProjectPath(login)) : login \in {"alpha", "beta", "gamma"}}
                       \cup {IdRef(2)} \cup {HandleRef(Handle(s_projects, i)) : i \in {2, 3}},
          faults \in LookupFaults, fault \in CreateFaults :
         \E call \in {remove_fork_relationship(s_projects, project, faults, fault)} :
            /\ s_projects' = call.projects
            /\ u_log' = Append(u_log,
                   [project |-> project, faults |-> faults, fault |-> fault,
                    delete |-> call.delete, result |-> call.result,
                    before |-> s_projects, after |-> call.projects])
    /\ UNCHANGED notUnfork

NextUnfork == Unfork

vars == <<retryVars, deadlineVars, serverVars, forkVars, batchVars, gatherVars, putVars, twiceVars, waitVars, genVars, canonVars, rosterVars, unforkVars>>

SpecRetry == InitRetry /\ [][NextRetry]_vars

\* The wrapper is sequential code and the wrapped function ends, by
\* returning or by raising: a step that can be taken is taken.
SpecRetryFair == SpecRetry /\ WF_vars(NextRetry)

SpecDeadline == InitDeadline /\ [][NextDeadline]_vars

SpecFork == InitFork /\ [][NextFork]_vars

SpecBatch == InitBatch /\ [][NextBatch]_vars

SpecGather == InitGather /\ [][NextGather]_vars

SpecPut == InitPut /\ [][NextPut]_vars

SpecTwice == InitTwice /\ [][NextTwice]_vars

SpecWait == InitWait /\ [][NextWait]_vars

SpecGen == InitGen /\ [][NextGen]_vars

SpecCanon == InitCanon /\ [][NextCanon]_vars

SpecRoster == InitRoster /\ [][NextRoster]_vars

SpecUnfork == InitUnfork /\ [][NextUnfork]_vars

(***************************************************************************)
(* Claims about the deadline commit resolver, checked under SpecDeadline.  *)
(* They speak of instants, not of the resolver's own conversions: the      *)
(* instant a timestamp string denotes is its clock reading less its zone's *)
(* offset, and a string that names no zone is in UTC.                      *)
(***************************************************************************)
InstantOf(ts) ==
    CASE ts.zone = "plus1" -> ts.t - 1
      [] ts.zone = "utc"   -> ts.t
      [] ts.zone = "naive" -> ts.t

Query == d_query[1]
Result == d_result[1]

TagsNamed(name) == {k \in 1..Len(d_tags) : d_tags[k].name = name}

\* The preferred tag of the query exists.
TagExists == Query.tag # None /\ TagsNamed(Query.tag[1]) # {}

\* The commit the preferred tag points at (tag names are unique).
TagCommit == d_commits[d_tags[CHOOSE k \in TagsNamed(Query.tag[1]) : TRUE].commit.id]

TagBeforeDeadline ==
    TagExists /\ InstantOf(TagCommit.created_at) <= InstantOf(Query.deadline)

TagAfterDeadline ==
    TagExists /\ InstantOf(TagCommit.created_at) > InstantOf(Query.deadline)

Blacklisted(c) == Query.blacklist # None /\ c.author_email \in Query.blacklist[1]

\* Positions in d_commits (higher: newer) of the commits of the branch made
\* at or before the deadline, and of those among them the filter accepts.
Candidates ==
    {i \in 1..Len(d_commits) :
        /\ d_commits[i].branch = Branch
        /\ InstantOf(d_commits[i].created_at) <= InstantOf(Query.deadline)}

Passing == {i \in Candidates : ~Blacklisted(d_commits[i])}

Newest(S) == CHOOSE i \in S : \A j \in S : j <= i

\* C7: a preferred tag that exists and whose commit is dated at or before
\* the deadline (equality included) makes the resolver return the tag's
\* commit, whatever later commits the branch holds before the deadline.
C7_TagBeforeDeadlineWins ==
    (d_query # <<>> /\ TagBeforeDeadline) => Result = Returned(TagCommit)

\* The branch holds a commit later than the tag's, dated exactly at the
\* deadline and accepted by the filter; the deadline is written in another
\* zone than the commits' dates.
C7_Witness ==
    /\ d_query # <<>>
    /\ TagBeforeDeadline
    /\ TagCommit.created_at.zone = "utc" /\ Query.deadline.zone = "plus1"
    /\ \E i \in Passing :
          /\ i > TagCommit.id
          /\ InstantOf(d_commits[i].created_at) = InstantOf(Query.deadline)
    /\ Result = Returned(TagCommit)

\* C8: a preferred tag whose commit is dated after the deadline raises no
\* error and changes nothing: the resolver gives exactly what it gives for
\* the same repository, branch, deadline and filter without a tag.
C8_TagAfterDeadlineIgnored ==
    (d_query # <<>> /\ TagAfterDeadline) =>
        Result = get_commit_before_deadline([commits |-> d_commits, tags |-> d_tags],
                     Query.deadline, Branch, Query.blacklist, None)

C8_Witness ==
    /\ d_query # <<>>
    /\ TagAfterDeadline
    /\ Result.kind = "return"
    /\ Result.val[1].id < TagCommit.id

\* C9: without a preferred tag the resolver returns, of the branch's
\* commits at or before the deadline, the newest one whose author the
\* filter accepts; with the accept-everything filter that is the first
\* entry of the list.
C9_FirstPassingCommit ==
    (d_query # <<>> /\ Query.tag = None /\ Passing # {}) =>
        /\ Result = Returned(d_commits[Newest(Passing)])
        /\ Query.blacklist = None => Result = Returned(d_commits[Newest(Candidates)])

\* The newest commit before the deadline is blacklisted, the one before it
\* is not, and that one is returned.
C9_Witness ==
    /\ d_query # <<>>
    /\ Query.tag = None
    /\ Passing # {}
    /\ Blacklisted(d_commits[Newest(Candidates)])
    /\ Result = Returned(d_commits[Newest(Passing)])

NoMatchingCommit ==
    Result.kind = "raise" /\ Result.ex[1].cls = "GitlabGetError" /\ Result.val = None

\* C10 as claimed: whenever no commit of the branch at or before the
\* deadline passes the filter, the resolver fails with 'no matching commit'.
C10_NoPassingCommitFails ==
    (d_query # <<>> /\ Passing = {}) => NoMatchingCommit

\* C10 as amended: ... unless a preferred tag is given whose commit is dated
\* at or before the deadline (that commit is then returned, unfiltered).
C10_NoPassingCommitFailsUnlessTag ==
    (d_query # <<>> /\ Passing = {} /\ ~TagBeforeDeadline) => NoMatchingCommit

\* Commits exist before the deadline, all of them blacklisted.
C10_Witness ==
    /\ d_query # <<>>
    /\ Passing = {}
    /\ Candidates # {}
    /\ ~TagBeforeDeadline
    /\ NoMatchingCommit

(***************************************************************************)
(* Claims about fork_project_idempotent, checked under SpecFork.           *)
(***************************************************************************)
SameFork(a, b) == a.parent = b.parent /\ a.namespace = b.namespace /\ a.name = b.name

\* The call met no failure but, at most, connection errors within the
\* retry budget of its lookups.
Undisturbed(c) == c.fault = "none" /\ c.faults < RetryAttempts

CreateConflicted(c) ==
    /\ c.create # <<>>
    /\ c.create[1].kind = "raise"
    /\ c.create[1].ex[1].cls = "GitlabCreateError"
    /\ c.create[1].ex[1].code = CONFLICT

CreateFailedOtherwise(c) ==
    c.create # <<>> /\ c.create[1].kind = "raise" /\ ~CreateConflicted(c)

\* C4: two calls with the same (parent, namespace, name): the second returns
\* a handle to the same project as the first (same id, path namespace/name)
\* and creates nothing: the server's set of projects is what it was.
C4_ForkTwiceSameProject ==
    \A i, j \in 1..Len(f_log) :
        (i < j /\ SameFork(f_log[i], f_log[j]) /\ f_log[i].result.kind = "return") =>
            LET a == f_log[i]
                b == f_log[j]
            IN  /\ a.result.val[1].path_with_namespace = <<a.namespace, a.name>>
                /\ b.after = b.before
                /\ (j = i + 1) => (b.after = a.after)
                /\ Undisturbed(b) => b.result.kind = "return"
                /\ b.result.kind = "return" =>
                      /\ b.result.val[1].id = a.result.val[1].id
                      /\ b.result.val[1].path_with_namespace = <<a.namespace, a.name>>

\* The first call created the fork, the second met the conflict.
C4_Witness ==
    /\ Len(f_log) = 2
    /\ SameFork(f_log[1], f_log[2])
    /\ f_log[1].create[1].kind = "return"
    /\ f_log[1].result.kind = "return"
    /\ CreateConflicted(f_log[2])
    /\ f_log[2].result.kind = "return"
    /\ f_log[2].result.val[1].id = f_log[1].result.val[1].id

\* C5: a create-fork failure reported as conflict is not raised, and the
\* project at namespace/name, which existed before the call, is resolved and
\* returned; a create-fork failure of any other kind is raised to the
\* caller as it is, and no project is returned.
C5_ConflictResolvedOthersPropagate ==
    \A k \in 1..Len(f_log) :
        LET c == f_log[k] IN
        /\ CreateConflicted(c) =>
              /\ c.result # c.create[1]
              /\ c.faults < RetryAttempts => c.result.kind = "return"
              /\ c.result.kind = "return" =>
                    /\ c.result.val[1].path_with_namespace = <<c.namespace, c.name>>
                    /\ <<c.result.val[1].id, <<c.namespace, c.name>>>> \in c.before
        /\ CreateFailedOtherwise(c) =>
              /\ c.result = c.create[1]
              /\ c.result.val = None

\* One call met a conflict and returned the project; another was refused
\* by the server and raised.
C5_Witness ==
    \E k, m \in 1..Len(f_log) :
        /\ CreateConflicted(f_log[k])
        /\ f_log[k].result.kind = "return"
        /\ CreateFailedOtherwise(f_log[m])
        /\ f_log[m].result.kind = "raise"
        /\ f_log[m].result.ex[1].cls = "GitlabCreateError"

(***************************************************************************)
(* Claims about the retry engine, checked under SpecRetry.                 *)
(***************************************************************************)
IsRetryableCall(c) ==
    c.kind = "raise" /\ \E allowed \in RetryExceptions : isinstance(c.ex[1], allowed)

IsNonRetryableCall(c) ==
    c.kind = "raise" /\ ~\E allowed \in RetryExceptions : isinstance(c.ex[1], allowed)

AllRetryable(calls) == \A i \in 1..Len(calls) : IsRetryableCall(calls[i])

\* C1: a failure whose kind is not retryable propagates to the caller at the
\* attempt where it occurs, and the operation is not invoked again, also
\* when retryable failures came before it.
C1_NonRetryablePropagatesAtOnce ==
    \A i \in 1..Len(r_calls) :
        IsNonRetryableCall(r_calls[i]) =>
            /\ i = Len(r_calls)
            /\ r_pc = "done"
            /\ r_outcome = <<r_calls[i]>>

\* Does exception e carry exception x: is it x, or is x its __context__?
Carries(e, x) == e = x \/ (e.context # <<>> /\ e.context[1] = x)

\* C2: when every attempt fails with a retryable error until the budget is
\* used up, the wrapper raises a failure that carries the error of the last
\* attempt.
C2_TimedOutCarriesLastError ==
    (r_pc = "done" /\ Len(r_calls) = RetryAttempts /\ AllRetryable(r_calls)) =>
        /\ r_outcome[1].kind = "raise"
        /\ Carries(r_outcome[1].ex[1], r_calls[Len(r_calls)].ex[1])

\* C3: retryable failures on attempts 1..k-1 and success on attempt k, with
\* k at most 6: the wrapper does not give up before attempt k, returns the
\* result of attempt k, has invoked the operation exactly k times, has slept
\* between each two consecutive attempts, and the caller sees no error.
C3_SucceedsAfterRetryableFailures ==
    LET k == Len(r_calls) IN
    /\ (AllRetryable(r_calls) /\ k < RetryAttempts) => r_pc # "done"
    /\ (k >= 1 /\ k <= RetryAttempts /\ AllRetryable(SubSeq(r_calls, 1, k - 1))
           /\ r_calls[k].kind = "return") =>
          /\ r_pc = "done"
          /\ r_outcome = <<Returned(r_calls[k].val[1])>>
          /\ r_gen.n = k
          /\ \A i \in 1..(k - 1) : r_slept[i] > 0

C3_Witness ==
    /\ r_pc = "done"
    /\ Len(r_calls) = RetryAttempts
    /\ AllRetryable(SubSeq(r_calls, 1, RetryAttempts - 1))
    /\ r_outcome = <<Returned("v2")>>

(***************************************************************************)
(* Claims about re-running an interrupted batch command.                   *)
(***************************************************************************)
\* The positions of the projects at a path.
ProjectsAt(projects, path) == {i \in 1..Len(projects) : projects[i].path = path}

\* What one uninterrupted run of the command leaves of a student project
\* that existed before the command.
AfterCommand(cmd, p, login) ==
    IF cmd.name = "fork" THEN p
    ELSE IF cmd.dry_run THEN p
    ELSE IF cmd.name = "add-member"
    THEN IF \E m \in p.members : m.user_id = login THEN p
         ELSE [p EXCEPT !.members = @ \cup {[user_id |-> login, access_level |-> AccessLevel]}]
    ELSE IF cmd.only_once /\ cmd.force_commit THEN p
    ELSE IF cmd.only_once /\ p.file # None THEN p
    ELSE [p EXCEPT !.file = <<[utf8 |-> LocalFileContent]>>]

\* The forks one uninterrupted fork command adds, in roster order.
RECURSIVE AddedForks(_, _, _)
AddedForks(cmd, start, k) ==
    IF k > Len(Roster) THEN <<>>
    ELSE (IF cmd.name = "fork" /\ ProjectsAt(start, ProjectPath(Roster[k])) = {}
          THEN <<[path |-> ProjectPath(Roster[k]),
                  forked_from |-> IF cmd.hide_fork THEN <<>> ELSE <<1>>,
                  empty_repo |-> FALSE, members |-> {}, file |-> <<>>]>>
          ELSE <<>>) \o AddedForks(cmd, start, k + 1)

\* The server after one uninterrupted run of the command from start.
UninterruptedFinal(cmd, start) ==
    [i \in 1..Len(start) |->
        IF \E k \in 1..Len(Roster) : start[i].path = ProjectPath(Roster[k])
        THEN AfterCommand(cmd, start[i],
                 Roster[CHOOSE k \in 1..Len(Roster) : start[i].path = ProjectPath(Roster[k])])
        ELSE start[i]]
    \o AddedForks(cmd, start, 1)

\* C6: when a batch command (fork with or without hide-fork, add-member,
\* put-file) has been killed after any prefix of its remote calls and run
\* again to completion, the server is as one uninterrupted run leaves it:
\* one project per target path, the member present once, the file with the
\* requested content; and a run fails only because a fork is still empty
\* when the wait gives up, never because of the work already done.
C6_RerunEqualsUninterruptedRun ==
    /\ b_pc.step = "failed" => b_err = <<TimedOutEx>>
    /\ b_pc.step = "done" =>
        /\ b_err = <<>>
        /\ s_projects = UninterruptedFinal(b_cmd, b_start)
        /\ \A k \in 1..Len(Roster) :
               LET at == ProjectsAt(s_projects, ProjectPath(Roster[k])) IN
               /\ Cardinality(at) <= 1
               /\ b_cmd.name = "fork" => Cardinality(at) = 1
               /\ \A i \in at :
                    /\ b_cmd.name = "add-member" /\ ~b_cmd.dry_run =>
                          Cardinality({m \in s_projects[i].members : m.user_id = Roster[k]}) = 1
                    /\ b_cmd.name = "put-file" /\ ~b_cmd.dry_run /\ ~b_cmd.only_once =>
                          s_projects[i].file = <<[utf8 |-> LocalFileContent]>>

\* A fork command with hide-fork, killed when the first student's fork was
\* made and hidden and the second's was made but not yet hidden, has been
\* run again to its end.
C6_Witness ==
    /\ b_cmd.name = "fork" /\ b_cmd.hide_fork
    /\ Len(b_start) = 1
    /\ b_kills = <<[entry |-> 2, step |-> "hide"]>>
    /\ b_pc.step = "done"

(***************************************************************************)
(* Claims about the batches that resolve a commit per row.                 *)
(***************************************************************************)
GatherEnded == g_pc.step \in {"done", "failed"}

RowExists(login) == ProjectsAt(s_projects, ProjectPath(login)) # {}

\* The commits of the row's branch made at or before the deadline.
RowMatches(login) ==
    {i \in 1..Len(g_commits[login]) :
        /\ g_commits[login][i].branch = Branch
        /\ InstantOf(g_commits[login][i].created_at) <= InstantOf(GatherDeadline)}

Reports(login) == {k \in 1..Len(g_out) : g_out[k].login = login}

\* The command resolves a commit per row by the deadline.
ResolvesByDeadline ==
    g_cmd \in {"deadline-commit", "get-file", "clone"} /\ g_commit = None

\* C11: in a batch that resolves a deadline commit per row, a row with no
\* matching commit is a failure of that row only: when the command has
\* ended, every row with a matching commit has its result, whether it
\* comes before or after the failing row, and the failing row is reported.
C11_NoCommitFailsOnlyItsRow ==
    (GatherEnded /\ ResolvesByDeadline) =>
        \A k \in 1..Len(g_roster) :
            LET login == g_roster[k] IN
            RowExists(login) =>
                IF RowMatches(login) # {}
                THEN \E r \in Reports(login) : g_out[r].kind # "no-commit"
                ELSE /\ g_err = <<>>
                     /\ \E r \in Reports(login) : g_out[r].kind = "no-commit"

FaultAt(L, n) == L.script[IF n <= Len(L.script) THEN n ELSE Len(L.script)]

\* The invocations of a logged call that sent a request.
Invocations(L) == {L.actions[k].invocation : k \in 1..Len(L.actions)}

ActionsOf(L, n) ==
    LET OfN(a) == a.invocation = n IN SelectSeq(L.actions, OfN)

\* The file on the server when invocation n of a logged call starts: a
\* create whose answer was lost has written it.
RECURSIVE FileBefore(_, _)
FileBefore(L, n) ==
    IF n = 1 THEN L.before
    ELSE LET f == FileBefore(L, n - 1) IN
         IF f = <<>> /\ FaultAt(L, n - 1) = "lost" THEN <<[utf8 |-> L.file_contents]>> ELSE f

CreateFirst(L) ==
    \A n \in Invocations(L) : ActionsOf(L, n)[1].action = "create"

\* The create of invocation n was answered 400: the file exists.
RejectedBadRequest(L, n) == FaultAt(L, n) = "none" /\ FileBefore(L, n) # <<>>

UpdateAfterBadRequest(L) ==
    \A n \in Invocations(L) :
        RejectedBadRequest(L, n) /\ L.overwrite =>
            /\ ActionsOf(L, n) = <<[invocation |-> n, action |-> "create"],
                                  [invocation |-> n, action |-> "update"]>>
            /\ L.result.kind = "return"
            /\ L.after = <<[utf8 |-> L.file_contents]>>

OtherRejectionPropagates(L) ==
    \A n \in Invocations(L) :
        FaultAt(L, n) = "refused" =>
            /\ L.result.kind = "raise"
            /\ L.result.ex[1].cls = "GitlabCreateError"
            /\ L.result.ex[1].code = NOT_FOUND

\* C13: put_file first sends the commit with a create action; when the
\* server answers that with a bad request and overwrite is allowed, it
\* sends the same commit as an update, after which the file holds the
\* given content; a create rejected with any other error class reaches
\* the caller as that error.
C13_CreateThenUpdateOthersPropagate ==
    \A k \in 1..Len(p_log) :
        /\ CreateFirst(p_log[k])
        /\ UpdateAfterBadRequest(p_log[k])
        /\ OtherRejectionPropagates(p_log[k])

NotWritten == [kind |-> "return", val |-> <<<<>>>>, ex |-> <<>>]

Skipped(row) == row.report \in {"no-change", "not-overwriting"}

\* C15: when put-file is run twice with the same local content and the
\* only-once policy, the second run reports every row it finds as skipped
\* and sends no commit request to the server.
C15_SecondRunOnceSendsNothing ==
    t_cmd.only_once /\ ~t_cmd.force_commit /\ ~t_cmd.dry_run /\ Len(t_runs) >= 2 =>
        \A k \in 1..Len(t_runs[2].rows) :
            LET row == t_runs[2].rows[k] IN
            row.report # "not-found" => Skipped(row) /\ row.actions = <<>>

\* C15, as the code has it: in the second run every row found is reported
\* as skipped and the server is left as it was; a row whose file holds the
\* local content, as every row the first run uploaded does, is reported
\* unchanged and nothing is sent for it; a row whose file holds other
\* content is reported as not overwritten and one create is sent for it,
\* which the server rejects, and no update.
C15_SecondRunOnceChangesNothing ==
    t_cmd.only_once /\ ~t_cmd.force_commit /\ ~t_cmd.dry_run /\ Len(t_runs) >= 2 =>
        /\ t_runs[2].err = <<>>
        /\ Len(t_runs[2].rows) = Len(Roster)
        /\ (IF Len(t_runs) = 2 THEN s_projects ELSE t_runs[3].before) = t_runs[2].before
        /\ \A k \in 1..Len(t_runs[2].rows) :
            LET row == t_runs[2].rows[k]
                at == ProjectsAt(t_runs[2].before, ProjectPath(row.login))
            IN  row.report # "not-found" =>
                /\ Skipped(row)
                /\ t_runs[1].rows[k].report = "uploading" => row.report = "no-change"
                /\ \A i \in at :
                     IF t_runs[2].before[i].file = <<[utf8 |-> LocalFileContent]>>
                     THEN row.report = "no-change" /\ row.actions = <<>>
                     ELSE /\ row.report = "not-overwriting"
                          /\ row.actions = <<[invocation |-> 1, action |-> "create"]>>

\* The first run uploaded alpha's file, the second found it unchanged and
\* sent nothing.
C15_Witness ==
    /\ t_cmd.only_once /\ ~t_cmd.force_commit /\ ~t_cmd.dry_run
    /\ Len(t_runs) = 2
    /\ t_runs[1].rows[1] = [login |-> "alpha", report |-> "uploading",
                             actions |-> <<[invocation |-> 1, action |-> "create"]>>]
    /\ t_runs[2].rows[1] = [login |-> "alpha", report |-> "no-change", actions |-> <<>>]

(***************************************************************************)
(* Claims about wait_for_project_to_be_forked.                             *)
(***************************************************************************)
\* The requests sent when the project_path argument was resolved.
FetchedOnEntry == IF w_args.project_path.kind = "handle" THEN 0 ELSE 1

\* The polls the waiter's budget allows: 120 by default, and as many
\* intervals as it takes to use up a given timeout.
PollBudget ==
    IF w_args.timeout = <<>> THEN WaitAttempts
    ELSE (w_args.timeout[1] + WaitInterval - 1) \div WaitInterval

C16_WitnessTimedOut ==
    /\ w_pc = "done"
    /\ w_outcome = <<Raised(TimedOutEx)>>
    /\ w_args.timeout = <<>>
    /\ w_gen.n = WaitAttempts

(***************************************************************************)
(* Claims about the fork command when a wait times out.                    *)
(***************************************************************************)
\* C17: in the fork command, a row whose wait for the fork times out fails
\* alone: when the run has ended on the time-out of row i, the fork of
\* every later row has been asked for, so it exists on the server.
C17_WaitTimeoutFailsOnlyItsRow ==
    b_cmd.name = "fork" /\ b_pc.step = "failed" /\ b_err = <<TimedOutEx>> =>
        \A k \in (b_pc.entry + 1)..Len(Roster) :
            ProjectsAt(s_projects, ProjectPath(Roster[k])) # {}

(***************************************************************************)
(* Claims about the arguments of retries().                                *)
(***************************************************************************)
NeitherGiven == q_args.n = <<>> /\ q_args.timeout = <<>>
BothGiven == q_args.n # <<>> /\ q_args.timeout # <<>>

\* C18: retries() called with neither an attempt count nor a timeout
\* yields no attempt: the loop body never runs, and the loop ends with the
\* configuration error.
C18_NeitherGivenFailsBeforeAnyAttempt ==
    NeitherGiven =>
        /\ q_runs = 0
        /\ q_pc \in {"made", "done"}
        /\ q_pc = "done" => q_outcome = <<Raised(ConfigErrorEx)>>

\* The loop over retries() without arguments has ended, on the
\* configuration error.
C18_Witness ==
    /\ NeitherGiven
    /\ q_pc = "done"
    /\ q_outcome = <<Raised(ConfigErrorEx)>>

\* C19: when both an attempt count n and a timeout are given, the interval
\* is timeout/n, so the time-out is raised after exactly n attempts.
C19_BothGivenYieldsNAttempts ==
    BothGiven /\ q_outcome = <<Raised(TimedOutEx)>> => q_gen.n = q_args.n[1]

(***************************************************************************)
(* Claims about get_canonical_project.                                     *)
(***************************************************************************)
\* The project of the server an id or a path denotes, if any.
Denoted(projects, ref) ==
    {i \in 1..Len(projects) :
        \/ ref.kind = "id" /\ ref.id = i
        \/ ref.kind = "path" /\ projects[i].path = ref.path}

\* C20: get_canonical_project given a Project object returns that object
\* and sends no request, whatever the network does; given an id or a path
\* it sends a projects.get request and what it returns is the server's
\* project of that id or path; resolving what a resolution returned gives
\* the same object again, without a request; the server is never changed.
C20_ResolvedHandleReturnedAsIs ==
    \A k \in 1..Len(c_log) :
        LET L == c_log[k] IN
        /\ (IF k < Len(c_log) THEN c_log[k + 1].before ELSE s_projects) \in
              {L.before, [i \in 1..Len(L.before) |-> [L.before[i] EXCEPT !.empty_repo = FALSE]]}
        /\ L.project.kind = "handle" =>
              /\ L.result = [kind |-> "return", val |-> <<L.project.handle>>, ex |-> <<>>]
              /\ L.requests = 0
        /\ L.project.kind \in {"id", "path"} =>
              /\ L.requests >= 1
              /\ L.result.kind = "return" =>
                    \E i \in Denoted(L.before, L.project) :
                        /\ L.result.val[1].id = i
                        /\ L.result.val[1].path_with_namespace = L.before[i].path
                        /\ L.result.val[1].empty_repo = L.before[i].empty_repo
        /\ L.again # 0 =>
              /\ L.result = c_log[L.again].result
              /\ L.requests = 0

\* The fork was resolved by its path while empty, the server filled it,
\* and resolving the returned object again, on a failing network, gave
\* that object, unrefreshed, without a request.
C20_Witness ==
    /\ Len(c_log) = 2
    /\ c_log[1].project.kind = "path"
    /\ c_log[1].result.kind = "return"
    /\ c_log[1].result.val[1].empty_repo
    /\ c_log[1].requests = 2
    /\ c_log[2].again = 1
    /\ c_log[2].faults = RetryAttempts
    /\ ~c_log[2].before[2].empty_repo
    /\ c_log[2].result = c_log[1].result

\* C21: get_canonical_project given something that is neither an id, a
\* path nor a Project object raises its "Unexpected object type" exception
\* out of the first invocation: the function body runs once, no request is
\* sent, and the caller gets that exception, not the time-out of the
\* retries, whatever the network does.
C21_OtherTypeFailsAtOnce ==
    \A k \in 1..Len(c_log) :
        LET L == c_log[k] IN
        L.project.kind = "other" =>
            /\ L.result = Raised(MkEx("Exception", 0, 0))
            /\ L.invocations = 1
            /\ L.requests = 0
            /\ (IF k < Len(c_log) THEN c_log[k + 1].before ELSE s_projects) \in
                  {L.before, [i \in 1..Len(L.before) |-> [L.before[i] EXCEPT !.empty_repo = FALSE]]}

\* Such a call was made after a call with a path had been retried on a
\* failing network.
C21_Witness ==
    /\ Len(c_log) = 2
    /\ c_log[1].project.kind = "path" /\ c_log[1].invocations = 2
    /\ c_log[2].project.kind = "other"
    /\ c_log[2].faults = RetryAttempts
    /\ c_log[2].result.kind = "raise"

(***************************************************************************)
(* Claims about the add-member, protect and unprotect commands, checked    *)
(* under SpecRoster.                                                       *)
(***************************************************************************)
\* The server after roster entry k was processed.
ServerAfter(k) ==
    IF k < Len(o_log) THEN o_log[k + 1].before
    ELSE [projects |-> s_projects, branches |-> o_branches]

\* After entry k the for loop went on to the next entry, or ended normally.
Proceeded(k) ==
    \/ Len(o_log) > k
    \/ o_pc = [entry |-> k + 1, step |-> IF k = Len(o_roster) THEN "done" ELSE "row"]

\* Entry k reached members.create for a user the project has as a member.
AlreadyMember(k) ==
    /\ o_cmd.name = "add-member" /\ ~o_cmd.dry_run
    /\ o_log[k].row = "yield" /\ o_log[k].fault = "none"
    /\ \E m \in o_log[k].before.projects[o_log[k].project].members :
          m.user_id = o_log[k].login

\* C22: add-member for a user who is a member of the project already (the
\* server answers members.create with 409) raises nothing, leaves the
\* members of every project as they were, and the command goes on to the
\* next roster entry.
C22_ConflictSwallowedBatchProceeds ==
    \A k \in 1..Len(o_log) :
        AlreadyMember(k) =>
            /\ o_log[k].result = Returned(None)
            /\ o_log[k].requests # <<>>
            /\ ServerAfter(k) = o_log[k].before
            /\ Proceeded(k)

\* The first entry met the conflict, and the second entry, processed after
\* it, added its member.
C22_Witness ==
    /\ Len(o_log) = 2
    /\ AlreadyMember(1)
    /\ o_log[2].row = "yield"
    /\ o_log[2].before.projects[o_log[2].project].members = {}
    /\ s_projects[o_log[2].project].members # {}

\* Entry k reached members.create and the call failed, not with a conflict.
AddFailed(k) ==
    /\ o_cmd.name = "add-member" /\ ~o_cmd.dry_run
    /\ o_log[k].row = "yield" /\ o_log[k].fault # "none"

\* C23: when members.create fails for a roster entry with a failure that
\* is no conflict, an error is logged for the entry, nothing is raised and
\* the command goes on to the remaining entries.
C23_OtherFailureLoggedBatchProceeds ==
    \A k \in 1..Len(o_log) :
        AddFailed(k) =>
            /\ o_log[k].log = <<"info", "error">>
            /\ o_log[k].result = Returned(None)
            /\ Proceeded(k)

\* Entry k of the command `name` got its project from the roster.
Resolved(name, k) == o_cmd.name = name /\ o_log[k].row = "yield"

\* The named branch of entry k's project before the entry and after it.
BranchBefore(k) == o_log[k].before.branches[o_log[k].project]
BranchAfter(k) == ServerAfter(k).branches[o_log[k].project]

\* The calls entry k sent that remove a protection.
Removals(k) ==
    {i \in 1..Len(o_log[k].requests) : o_log[k].requests[i].call = "branch.unprotect"}

\* C24: unprotect, for a branch that has no protection, sends no call that
\* removes one and ends without error; for a protected branch it sends
\* the removal; either way the branch is unprotected afterwards.
C24_UnprotectOnlyWhenProtected ==
    \A k \in 1..Len(o_log) :
        Resolved("unprotect", k) =>
            /\ BranchBefore(k).protection = None =>
                  /\ Removals(k) = {}
                  /\ o_log[k].result = Returned(None)
            /\ BranchBefore(k).protection # None => Removals(k) # {}
            /\ BranchAfter(k).protection = None

\* The calls entry k sent that create a protection.
Protections(k) ==
    {i \in 1..Len(o_log[k].requests) : o_log[k].requests[i].call = "branch.protect"}

\* C25: protect, for a branch that has no protection, sends one call that
\* creates the protection, carrying the branch name and the access rules
\* asked for; for a branch that is protected already the entry ends
\* without error.
C25_ProtectCreatesWhenUnprotected ==
    \A k \in 1..Len(o_log) :
        Resolved("protect", k) =>
            /\ BranchBefore(k).protection = None =>
                  /\ Cardinality(Protections(k)) = 1
                  /\ \A i \in Protections(k) :
                        /\ o_log[k].requests[i].branch = RefName
                        /\ o_log[k].requests[i].developers_can_push = o_cmd.developers_can_push
                        /\ o_log[k].requests[i].developers_can_merge = o_cmd.developers_can_merge
            /\ BranchBefore(k).protection # None => o_log[k].result = Returned(None)

(***************************************************************************)
(* Claims about remove_fork_relationship, checked under SpecUnfork.        *)
(***************************************************************************)
\* The project a call of remove_fork_relationship was about.
Unforked(L) ==
    IF L.project.kind = "handle" THEN L.project.handle.id
    ELSE CHOOSE i \in Denoted(L.before, L.project) : TRUE

\* C26: when the server answers the delete with 304, because the project
\* has no fork relation, remove_fork_relationship returns normally and the
\* server is as before; any other failure of the delete is raised to the
\* caller unchanged; and after a normal return the project has no fork
\* relation.
C26_NotModifiedIsSuccessOthersPropagate ==
    \A k \in 1..Len(u_log) :
        LET L == u_log[k] IN
        /\ (L.delete # <<>> /\ L.fault = "none" /\ L.before[Unforked(L)].forked_from = None) =>
              /\ L.delete = <<Raised(MkEx("GitlabDeleteError", NOT_MODIFIED, 0))>>
              /\ L.result = Returned(None)
              /\ L.after = L.before
        /\ (L.delete # <<>> /\ L.fault # "none") =>
              /\ L.result.kind = "raise"
              /\ <<L.result>> = L.delete
              /\ L.after = L.before
        /\ L.result.kind = "return" => L.after[Unforked(L)].forked_from = None

\* The relation of alpha's fork was removed, and a second call for the
\* same project, answered 304, returned normally.
C26_Witness ==
    /\ Len(u_log) = 2
    /\ u_log[1].before[2].forked_from # None
    /\ u_log[1].result.kind = "return"
    /\ u_log[2].delete # <<>> /\ u_log[2].delete[1].kind = "raise"
    /\ Unforked(u_log[2]) = 2
    /\ u_log[2].delete[1].ex[1].code = NOT_MODIFIED
    /\ u_log[2].result = Returned(None)

\* The project roster entry k names is not on the server (and the entry is
\* not passed over as a duplicate).
ProjectMissing(k) ==
    /\ o_log[k].row # "duplicate"
    /\ \A i \in 1..Len(o_log[k].before.projects) :
          o_log[k].before.projects[i].path # ProjectPath(o_log[k].login)

\* C27: a roster entry whose project is not on the server is skipped with
\* a warning: it sends no call about any project, changes nothing on the
\* server, raises nothing, and the command goes on to the other entries
\* in the order of the roster.
C27_MissingProjectSkipped ==
    \A k \in 1..Len(o_log) :
        /\ o_log[k].login = o_roster[k]
        /\ ProjectMissing(k) =>
              /\ o_log[k].row = "missing"
              /\ o_log[k].log = <<"warning">>
              /\ o_log[k].requests = <<>>
              /\ o_log[k].result = Returned(None)
              /\ ServerAfter(k) = o_log[k].before
              /\ Proceeded(k)

\* The access level asked for is none action_add_member supports.
UnsupportedLevel ==
    o_cmd.name = "add-member" /\ o_cmd.access_level \notin {"devel", "reporter"}

\* C28: add-member with an unsupported access level ends with an exception
\* before the roster is touched: no entry is looked up or processed, no
\* call is sent and no project has a member it did not have.
C28_UnsupportedLevelAbortsBeforeRoster ==
    UnsupportedLevel =>
        /\ o_pc \in {[entry |-> 1, step |-> "check"], [entry |-> 1, step |-> "failed"]}
        /\ o_pc.step = "failed" => o_err = <<MkEx("Exception", 0, 0)>>
        /\ o_log = <<>>
        /\ o_seen = {}
        /\ \A i \in 1..Len(s_projects) :
              \A m \in s_projects[i].members : m.access_level = "REPORTER_ACCESS"

\* The command has ended so, with both students' projects on the server
\* and neither student a member.
C28_Witness ==
    /\ UnsupportedLevel /\ ~o_cmd.dry_run
    /\ o_pc.step = "failed"
    /\ Len(s_projects) = 2
    /\ \A i \in 1..2 : s_projects[i].members = {}

(***************************************************************************)
(* A further claim about the deadline commit resolver, checked under       *)
(* SpecDeadline.                                                           *)
(***************************************************************************)
\* C29 as claimed: every commit get_commit_before_deadline returns passes
\* the commit filter (its author is not blacklisted), whether it was
\* chosen through the preferred tag or through the branch history.
C29_ReturnedCommitPassesFilter ==
    (d_query # <<>> /\ Result.kind = "return") => ~Blacklisted(Result.val[1])

\* C29 as amended: every commit returned through the branch history (no
\* preferred tag, no such tag, or its commit dated after the deadline)
\* passes the commit filter; the commit of a preferred tag dated at or
\* before the deadline is returned whoever its author is.
C29_HistoryCommitPassesFilter ==
    d_query # <<>> =>
        /\ (Result.kind = "return" /\ ~TagBeforeDeadline) => ~Blacklisted(Result.val[1])
        /\ TagBeforeDeadline => Result = Returned(TagCommit)

\* The preferred tag points at a commit of a blacklisted author dated
\* after the deadline, and a commit of the branch history that passes the
\* filter was returned.
C29_Witness ==
    /\ d_query # <<>>
    /\ TagAfterDeadline
    /\ Blacklisted(TagCommit)
    /\ Result.kind = "return"
    /\ Result.val[1] # TagCommit
    /\ ~Blacklisted(Result.val[1])

(***************************************************************************)
(* A further claim about put_file, checked under SpecPut.                  *)
(***************************************************************************)
\* C30: put_file with overwrite not allowed gives its caller the
\* not-written signal only if the branch held the file before the call
\* started, also when an invocation fails with a retryable error after
\* the server has applied its create and the call is retried.
C30_NotWrittenOnlyIfFileExisted ==
    \A k \in 1..Len(p_log) :
        (~p_log[k].overwrite /\ p_log[k].result = NotWritten) => p_log[k].before # <<>>

(***************************************************************************)
(* A further claim about wait_for_project_to_be_forked, checked under      *)
(* SpecWait.                                                               *)
(***************************************************************************)
\* C31: wait_for_project_to_be_forked raises its time-out only if every
\* project it fetched from the server, the most recently fetched one
\* included, was empty: it never reports a time-out while holding a
\* project it fetched filled.
C31_TimeoutOnlyIfLastFetchEmpty ==
    (w_pc = "done" /\ w_outcome = <<Raised(TimedOutEx)>>) => w_project.empty_repo

(***************************************************************************)
(* A further claim about the fork command, checked under SpecBatch.        *)
(***************************************************************************)
\* C32: in the fork command the fork relation of a project is removed
\* only by the hide step of the roster entry that made or found the
\* project, only when hide-fork was asked for, and only after the wait of
\* that entry has held the project not empty: the relation of a fork not
\* yet seen filled is never removed.  The entry's steps come in the
\* order create, wait, hide.
C32_ForkHiddenOnlyAfterSeenFilled ==
    [][/\ \A i \in 1..Len(s_projects) :
            (s_projects[i].forked_from # None /\ s_projects'[i].forked_from = None) =>
                /\ b_cmd.name = "fork" /\ b_cmd.hide_fork
                /\ b_pc.step = "hide"
                /\ b_to_project.id = i
                /\ ~b_to_project.empty_repo
                /\ ~s_projects[i].empty_repo
       /\ (b_cmd.name = "fork" /\ b_pc'.step = "hide" /\ b_pc.step # "hide") =>
            b_pc.step = "wait" /\ ~b_to_project.empty_repo
       /\ (b_cmd.name = "fork" /\ b_pc'.step = "wait" /\ b_pc.step # "wait") =>
            /\ b_pc.step = "fork"
            /\ \E i \in 1..Len(s_projects') :
                  s_projects'[i].path = ProjectPath(Login) /\ b_to_project'.id = i
      ]_vars

\* The first entry's fork was made by this run, filled by the server, and
\* its relation was removed; the command is at the second entry.
C32_Witness ==
    /\ b_cmd.name = "fork" /\ b_cmd.hide_fork
    /\ b_kills = <<>>
    /\ b_pc.entry = 2
    /\ \A i \in 1..Len(b_start) : b_start[i].path # ProjectPath("alpha")
    /\ \E i \in 1..Len(s_projects) :
          /\ s_projects[i].path = ProjectPath("alpha")
          /\ s_projects[i].forked_from = None
          /\ ~s_projects[i].empty_repo

(***************************************************************************)
(* A further claim about retry_on_exception, checked under SpecRetryFair.  *)
(***************************************************************************)
\* C33: every call through retry_on_exception ends, by returning or by
\* raising, whatever the invocations of the wrapped function do, and it
\* invokes the wrapped function at most 6 times.
C33_TerminatesWithinSixInvocations ==
    /\ [](Len(r_calls) <= RetryAttempts /\ r_gen.n <= RetryAttempts)
    /\ <>(r_pc = "done" /\ r_outcome # <<>>)

\* A call has ended after six invocations, of which the second failed
\* with an error that is not retryable and the fourth with one that is.
C33_Witness ==
    /\ r_pc = "done"
    /\ r_outcome # <<>>
    /\ Len(r_calls) = RetryAttempts
    /\ IsNonRetryableCall(r_calls[2])
    /\ IsRetryableCall(r_calls[4])

(***************************************************************************)
(* A further claim about fork_project_idempotent, checked under SpecFork.  *)
(***************************************************************************)
\* C34: the project returned by fork_project_idempotent is a fork of the
\* given parent, also when the creation reported a conflict and the
\* project already present at namespace/name is returned.
C34_ReturnedIsForkOfParent ==
    \A k \in 1..Len(f_log) :
        f_log[k].result.kind = "return" =>
            s_projects[f_log[k].result.val[1].id].forked_from = Some(f_log[k].parent)

(***************************************************************************)
(* Claims about the switches of add-member and put-file, checked under     *)
(* SpecBatch.                                                              *)
(***************************************************************************)
\* C35: under --dry-run, add-member and put-file change nothing on the
\* server: at every point of the run, and across a kill and a rerun, the
\* server's projects (members and files) are those of the start.
C35_DryRunLeavesServerAlone ==
    (b_cmd.name \in {"add-member", "put-file"} /\ b_cmd.dry_run) =>
        s_projects = b_start

\* A put-file under --dry-run has gone through the roster; alpha's project
\* holds another content, so that a commit was needed, and beta's project
\* has no such file.
C35_Witness ==
    /\ b_cmd.name = "put-file" /\ b_cmd.dry_run /\ ~b_cmd.force_commit
    /\ b_pc.step = "done"
    /\ Len(b_start) = 3
    /\ b_start[2].file = Some(encode_utf8("old"))
    /\ b_start[3].file = None

(***************************************************************************)
(* A further claim about the put-file command, checked under SpecTwice.    *)
(***************************************************************************)
\* C36: put-file with both --force-commit and --once returns before the
\* first roster row: no row is looked up or reported, no commit request is
\* sent, no exception leaves the command, and the server is left as it was.
C36_ForceWithOnceAbortsBeforeRoster ==
    (t_cmd.only_once /\ t_cmd.force_commit) =>
        \A k \in 1..Len(t_runs) :
            /\ t_runs[k].rows = <<>>
            /\ t_runs[k].err = None
            /\ s_projects = t_runs[k].before

\* The command with both switches, not a dry run, has been run against a
\* server that holds both students' projects, alpha's with another content.
C36_Witness ==
    /\ t_cmd.only_once /\ t_cmd.force_commit /\ ~t_cmd.dry_run
    /\ Len(t_runs) >= 1
    /\ Len(t_runs[1].before) = 3
    /\ t_runs[1].before[2].file = Some(encode_utf8("old"))

(***************************************************************************)
(* A claim about as_existing_gitlab_projects, checked under SpecRoster:    *)
(* protect and unprotect call it with allow_duplicates False, add-member   *)
(* with the default True.                                                  *)
(***************************************************************************)
\* Entry k's project path is on the server when the entry starts.
OnServer(k) ==
    \E i \in 1..Len(o_log[k].before.projects) :
        o_log[k].before.projects[i].path = ProjectPath(o_log[k].login)

\* An earlier entry of the roster has the path of entry k.
MetBefore(k) == \E j \in 1..(k - 1) : o_log[j].login = o_log[k].login

\* C37: the rows are gone through in the order of the roster.  Without
\* duplicates allowed, a path met in an earlier row is passed over, so that
\* each path is yielded at most once, and a path met for the first time
\* whose project is on the server is yielded.  With duplicates allowed no
\* row is passed over: a row yields its project exactly when the project
\* is on the server.  What is yielded is the project at the row's path.
C37_DuplicatesYieldedOnceOrPerRow ==
    \A k \in 1..Len(o_log) :
        /\ o_log[k].login = o_roster[k]
        /\ o_log[k].row = "yield" =>
              o_log[k].before.projects[o_log[k].project].path = ProjectPath(o_log[k].login)
        /\ o_cmd.name \in {"protect", "unprotect"} =>
              /\ MetBefore(k) <=> o_log[k].row = "duplicate"
              /\ (~MetBefore(k) /\ OnServer(k)) => o_log[k].row = "yield"
              /\ \A j \in 1..(k - 1) :
                    (o_log[j].row = "yield" /\ o_log[k].row = "yield") =>
                        o_log[j].project # o_log[k].project
        /\ o_cmd.name = "add-member" =>
              /\ o_log[k].row # "duplicate"
              /\ o_log[k].row = "yield" <=> OnServer(k)

\* protect over the roster alpha, alpha, beta: the first row yields alpha's
\* project, the second is passed over, the third yields beta's.
C37_Witness ==
    /\ o_cmd.name = "protect"
    /\ Len(o_log) = 3
    /\ o_log[1].login = o_log[2].login
    /\ o_log[1].row = "yield"
    /\ o_log[2].row = "duplicate"
    /\ o_log[3].row = "yield"

(***************************************************************************)
(* Claims about the commands that read, checked under SpecGather.          *)
(***************************************************************************)
\* The calls that ask the server for something and change nothing on it.
ReadCalls ==
    {"projects.get", "commits.list", "commits.get", "repository_tree",
     "repository_blob", "pipelines.list", "jobs.list"}

ReadOnlyCommands == {"get-file", "deadline-commit", "get-last-pipeline", "commit-stats"}

C39_CommitWithDeadlineRejected ==
    (g_cmd = "clone" /\ g_commit # None) =>
        /\ g_calls = <<>>
        /\ g_out = <<>>
        /\ g_pc.entry = 1
        /\ g_pc.step # "done"

====
